---- MODULE Spec2Model ----
(***************************************************************************)
(* The interning engine of the `interned` crate: the thread-local          *)
(* canonical store INTERNED, the thread-local memo table MEMOIZED, the     *)
(* type-erased Static records they hold, and the Interned / Memoized       *)
(* entry points that fill them.                                            *)
(*                                                                         *)
(* Two source variants of the memoize entry point are in the repository:   *)
(* memoized.rs (scope, input, generator returning an Interned handle) and  *)
(* lib.rs (input, generator returning a plain value).  The variable        *)
(* `build` fixes which one a behaviour runs, and with it which of the two  *)
(* Static::_partial_eq (of _unsafe.rs or of lib.rs) compares handles.      *)
(*                                                                         *)
(* Spec is one thread working on one type; SpecRaw adds the slice and raw  *)
(* record layer with the caller's buffer, SpecThreads runs the entry       *)
(* points on two threads, SpecTypes on two types.                          *)
(***************************************************************************)
EXTENDS Integers, Sequences, FiniteSets, TLC

\* ------------------------------------------------------------------ bounds
\* Longest input tuple a caller passes to memoize; also the largest usize
\* value (the generators return lengths).
MaxLen == 2
\* Number of operations of one behaviour.
MaxOps == 3

\* ------------------------------------------------------------------ values
\* Storable types with a canonical-store bucket of their own.
Types == {"usize"}

\* The only byte value the model's tuples are made of (u8 fields equal to 0).
Byte == {0}

\* Inputs of memoize: tuples of u8 of length 0..MaxLen, written as sequences.
Inputs == UNION {[1..k -> Byte] : k \in 0..MaxLen}

\* Scopes of memoize: the unit scope () and the one-field scope (0u8,).
Scopes == UNION {[1..k -> Byte] : k \in 0..1}

\* Values of a storable type.
Values(T) == 0..MaxLen

\* Option: None, and Some(x).
None == <<>>
Some(x) == <<x>>

\* ------------------------------------------------------------------ hashing
\* DefaultHasher::default(): the hasher's initial state.
HasherDefault == 0

\* The number of digests: the width of the hash, u64 in the program, scaled
\* down to 16 bits.
HashSpace == 2 ^ 16

\* Hasher::write: absorbs a byte stream, one symbol at a time. The state
\* depends on the concatenated stream only: what was written by one call or by
\* several makes no difference. The short streams of a behaviour get
\* different digests; values that share a hash are reached through
\* caller-supplied hashes (InternStatic).
RECURSIVE Write(_, _)
Write(state, bytes) ==
    IF bytes = <<>> THEN state
    ELSE Write((state * 5 + Head(bytes) + 1) % HashSpace, Tail(bytes))

\* Hasher::finish: the finalisation rounds, a one-to-one scrambling of the
\* state (an odd multiplier is invertible modulo a power of two), so that the
\* order of two digests tells nothing about the order of the values hashed.
Finish(state) == (state * 24593) % HashSpace

\* The stream value.hash(&mut hasher) writes for a value of type T:
\* a usize is written as one word.
HashBytes(T, v) == <<v>>

\* The stream TypeId::hash writes.
TypeIdBytes(T) == IF T = "usize" THEN <<7>> ELSE <<8>>

\* let mut hasher = DefaultHasher::default(); value.hash(&mut hasher);
\* hasher.finish()
ContentHash(T, v) == Finish(Write(HasherDefault, HashBytes(T, v)))

\* ------------------------------------------------------------------ records
\* The storage kind a type's DataType impl declares (type Type = Value).
Kind(T) ==
    IF T \in {"usize", "u64"} THEN "Value" ELSE IF T = "&[u8]" THEN "Slice" ELSE "Str"

\* The type a handle of the given kind was interned for.
TypeOfKind(kind) == IF kind = "Value" THEN "usize" ELSE IF kind = "Slice" THEN "&[u8]" ELSE "&str"

\* DataType::SliceValueType: the element type of a slice type, the type itself
\* otherwise.
SliceValueType(T) == IF T = "&[u8]" THEN "u8" ELSE T

\* size_of::<E>() in bytes, on a 64-bit target: a slice reference is a fat
\* pointer.
SizeOf(E) == IF E = "u8" THEN 1 ELSE IF E \in {"&[u8]", "&str"} THEN 16 ELSE 8

\* Faulty variant of StaticValueWithHash: a hash that is not supplied is
\* computed from the address of the box, not from the value.
StaticValueWithHash_OfAddress(hp, T, v, hopt) ==
    LET ptr == Len(hp) + 1
        hash == IF hopt = None THEN ContentHash(T, ptr) ELSE hopt[1]
    IN [static |-> [kind |-> Kind(T), ptr |-> ptr, hash |-> hash],
        heap |-> Append(hp, v)]

\* Faulty variant of StaticValueWithHash: the box is allocated, the value is
\* not moved into it.
StaticValueWithHash_Empty(hp, T, v, hopt) ==
    LET hash == IF hopt = None THEN ContentHash(T, v) ELSE hopt[1]
        ptr == Len(hp) + 1
    IN [static |-> [kind |-> Kind(T), ptr |-> ptr, hash |-> hash],
        heap |-> Append(hp, 0)]

\* StaticValue::with_hash: boxes the value at a fresh address (Box::leak) and
\* keeps the given hash, or computes it when none is given. hp is the heap
\* before the call; the result carries the record and the heap after it.
StaticValueWithHash(hp, T, v, hopt) ==
    LET hash == IF hopt = None THEN ContentHash(T, v) ELSE hopt[1]
        ptr == Len(hp) + 1
    IN [static |-> [kind |-> Kind(T), ptr |-> ptr, hash |-> hash],
        heap |-> Append(hp, v)]

\* DataType::to_static_with_hash, as the impl macro defines it.
ToStaticWithHash(hp, T, v, hopt) == StaticValueWithHash(hp, T, v, hopt)

\* DataType::to_static.
ToStatic(hp, T, v) == ToStaticWithHash(hp, T, v, None)

\* Static::hash_code.
HashCode(static) == static.hash

\* Static::as_ptr.
AsPtr(static) == static.ptr

\* StaticValue::as_value: the payload the record points to.
AsValue(hp, static) == hp[static.ptr]

\* Static::_partial_eq of _unsafe.rs: the hash codes are compared.
PartialEq(a, b) == HashCode(a) = HashCode(b)

\* Static::_partial_eq of lib.rs: records of one kind compare by payload,
\* records of different kinds are unequal.
PartialEqLib(hp, a, b) == a.kind = b.kind /\ AsValue(hp, a) = AsValue(hp, b)

\* Ord::cmp of two integers.
CmpInt(x, y) == IF x < y THEN "Less" ELSE IF x > y THEN "Greater" ELSE "Equal"

\* Ord::cmp of two slices or strings: lexicographic, a proper prefix is less.
RECURSIVE CmpSeq(_, _)
CmpSeq(x, y) ==
    IF x = <<>> /\ y = <<>> THEN "Equal"
    ELSE IF x = <<>> THEN "Less"
    ELSE IF y = <<>> THEN "Greater"
    ELSE IF Head(x) # Head(y) THEN CmpInt(Head(x), Head(y))
    ELSE CmpSeq(Tail(x), Tail(y))

\* StaticSlice::as_slice::<E>: from_raw_parts(ptr as *const E, len), where len
\* is the element count the record was stored with. The payload holds len
\* elements of the stored type; read with an E of another size the slice
\* runs past the allocation, which is undefined unless len is 0.
AsSlice(hp, static, E, stored) ==
    [defined |-> Len(hp[static.ptr]) * SizeOf(E) = Len(hp[static.ptr]) * SizeOf(stored),
     out |-> hp[static.ptr]]

\* What a comparison can come to: an ordering, or, where the behaviour is
\* undefined, any ordering or a crash.
Undefined == {"Less", "Equal", "Greater", "Crash"}

\* Faulty variant of StaticCmp: the hash codes are compared, as the raw
\* records' own Ord does.
StaticCmp_ByHash(hp, T, a, b) == {CmpInt(HashCode(a), HashCode(b))}

\* Static::_cmp::<T> and Static::_partial_cmp::<T> (which returns Some of the
\* same), the set of their possible results: two records of one variant are
\* ordered by the payloads they point to, two records of different variants
\* by (type id, hash code), where the type id is the same T on both sides.
\* The Slice arm reads both payloads with as_slice::<T>(), T being the
\* handle's type, not T::SliceValueType.
StaticCmp(hp, T, a, b) ==
    IF a.kind = b.kind
    THEN IF a.kind = "Value" THEN {CmpInt(hp[a.ptr], hp[b.ptr])}
         ELSE IF a.kind = "Str" THEN {CmpSeq(hp[a.ptr], hp[b.ptr])}
         ELSE LET x == AsSlice(hp, a, T, SliceValueType(T))
                  y == AsSlice(hp, b, T, SliceValueType(T))
              IN IF x.defined /\ y.defined THEN {CmpSeq(x.out, y.out)} ELSE Undefined
    ELSE {CmpInt(HashCode(a), HashCode(b))}

\* ------------------------------------------------------------------ tables
\* HashMap::new().
EmptyMap == [k \in {} |-> None]

\* Faulty variant of WithBucket: entry(type_id).insert_entry(HashMap::new()), a fresh
\* bucket on every access.
WithBucket_Fresh(table, T) ==
    IF T \in DOMAIN table THEN [table EXCEPT ![T] = EmptyMap] ELSE (T :> EmptyMap) @@ table

\* table.entry(type_id).or_insert_with(|| HashMap::new()): the table with the
\* type's bucket present.
WithBucket(table, T) ==
    IF T \in DOMAIN table THEN table ELSE (T :> EmptyMap) @@ table

\* Faulty variant of OrInsert: bucket.insert(hash, value), the last writer wins.
OrInsert_Overwrite(bucket, hash, value) ==
    IF hash \in DOMAIN bucket THEN [bucket EXCEPT ![hash] = value] ELSE (hash :> value) @@ bucket

\* bucket.entry(hash).or_insert(value): the bucket afterwards.
OrInsert(bucket, hash, value) ==
    IF hash \in DOMAIN bucket THEN bucket ELSE (hash :> value) @@ bucket

\* The number of entries of the type's bucket (0 when it has none yet).
Len_(table, T) == IF T \in DOMAIN table THEN Cardinality(DOMAIN table[T]) ELSE 0

\* num_interned / num_memoized: table.entry(type_id).or_default().len(),
\* which leaves an empty bucket behind when the type had none.
NumOf(table, T) == [table |-> WithBucket(table, T), len |-> Len_(WithBucket(table, T), T)]

\* Faulty variant of InternedFromStatic: the handle wraps the record passed in, not
\* the entry of the bucket.
InternedFromStatic_ReturnsArgument(st, T, value) ==
    LET table == WithBucket(st.interned, T)
        bucket == OrInsert(table[T], HashCode(value), value)
    IN [interned |-> [table EXCEPT ![T] = bucket],
        memoized |-> st.memoized,
        heap |-> st.heap,
        entry |-> value]

\* Faulty variant of InternedFromStatic: an occupied hash is checked for a
\* collision, and a record whose payload differs from the stored one's takes
\* over the entry.
InternedFromStatic_CompareContent(st, T, value) ==
    LET table == WithBucket(st.interned, T)
        hash == HashCode(value)
        same == hash \in DOMAIN table[T] /\ AsValue(st.heap, table[T][hash]) = AsValue(st.heap, value)
        bucket == IF same THEN table[T] ELSE OrInsert_Overwrite(table[T], hash, value)
    IN [interned |-> [table EXCEPT ![T] = bucket],
        memoized |-> st.memoized,
        heap |-> st.heap,
        entry |-> bucket[hash]]

\* impl From<Static> for Interned<T>: looks the record's own hash up in the
\* type's bucket and keeps the record already there, if any.
\* st = [interned, memoized, heap]; the result adds the entry returned.
InternedFromStatic(st, T, value) ==
    LET table == WithBucket(st.interned, T)
        bucket == OrInsert(table[T], HashCode(value), value)
    IN [interned |-> [table EXCEPT ![T] = bucket],
        memoized |-> st.memoized,
        heap |-> st.heap,
        entry |-> bucket[HashCode(value)]]

\* Faulty variant of InternedFromT: no lookup, every call boxes the value and stores
\* the new record under its hash.
InternedFromT_NoLookup(st, T, v) ==
    LET hash == ContentHash(T, v)
        table == WithBucket(st.interned, T)
        made == ToStaticWithHash(st.heap, T, v, Some(hash))
    IN [interned |-> [table EXCEPT ![T] = (hash :> made.static) @@ @],
        memoized |-> st.memoized,
        heap |-> made.heap,
        entry |-> made.static]

\* Faulty variant of InternedFromT: the type id is left out, the records of
\* all types go to one bucket.
InternedFromT_OneBucket(st, T, v) ==
    LET hash == ContentHash(T, v)
        table == WithBucket(st.interned, "usize")
        made == ToStaticWithHash(st.heap, T, v, Some(hash))
    IN IF hash \in DOMAIN table["usize"]
       THEN [interned |-> table,
             memoized |-> st.memoized,
             heap |-> st.heap,
             entry |-> table["usize"][hash]]
       ELSE [interned |-> [table EXCEPT !["usize"] = (hash :> made.static) @@ @],
             memoized |-> st.memoized,
             heap |-> made.heap,
             entry |-> made.static]

\* Faulty variant of InternedFromT: the record is built without the hash that
\* was computed for the lookup, and is stored under that hash.
InternedFromT_Unhashed(st, T, v) ==
    LET hash == ContentHash(T, v)
        table == WithBucket(st.interned, T)
        made == ToStaticWithHash(st.heap, T, v, Some(0))
    IN IF hash \in DOMAIN table[T]
       THEN [interned |-> table,
             memoized |-> st.memoized,
             heap |-> st.heap,
             entry |-> table[T][hash]]
       ELSE [interned |-> [table EXCEPT ![T] = (hash :> made.static) @@ @],
             memoized |-> st.memoized,
             heap |-> made.heap,
             entry |-> made.static]

\* Faulty variant of InternedFromT: the record is built before the lookup, so
\* a call that finds its hash in the bucket has allocated a payload it drops.
InternedFromT_BuildFirst(st, T, v) ==
    LET hash == ContentHash(T, v)
        table == WithBucket(st.interned, T)
        made == ToStaticWithHash(st.heap, T, v, Some(hash))
        bucket == OrInsert(table[T], hash, made.static)
    IN [interned |-> [table EXCEPT ![T] = bucket],
        memoized |-> st.memoized,
        heap |-> made.heap,
        entry |-> bucket[hash]]

\* impl From<T> for Interned<T::Static>: hashes the value, and allocates a
\* record only when the hash is absent from the type's bucket.
InternedFromT(st, T, v) ==
    LET hash == ContentHash(T, v)
        table == WithBucket(st.interned, T)
        made == ToStaticWithHash(st.heap, T, v, Some(hash))
    IN IF hash \in DOMAIN table[T]
       THEN [interned |-> table,
             memoized |-> st.memoized,
             heap |-> st.heap,
             entry |-> table[T][hash]]
       ELSE [interned |-> [table EXCEPT ![T] = (hash :> made.static) @@ @],
             memoized |-> st.memoized,
             heap |-> made.heap,
             entry |-> made.static]

\* ------------------------------------------------------------------ memoize
\* The generators callers pass: the length of the input, and a constant.
Gens == {"len", "zero"}

\* What a generator computes from its input.
GenOut(g, input) == IF g = "len" THEN Len(input) ELSE 0

\* memoized.rs, the key: input, scope and the type id written to one hasher.
MemoKey(T, scope, input) ==
    Finish(Write(Write(Write(HasherDefault, input), scope), TypeIdBytes(T)))

\* lib.rs, the key: the input alone.
MemoKeyLib(T, input) == Finish(Write(HasherDefault, input))

\* Faulty variant of MemoizedFrom: the generator is evaluated before the entry is
\* looked at (or_insert(generator(input).value)), so it runs on a hit too.
MemoizedFrom_Eager(st, T, scope, input, g) ==
    LET key == MemoKey(T, scope, input)
        table == WithBucket(st.memoized, T)
        st0 == [interned |-> st.interned, memoized |-> table, heap |-> st.heap]
        gen == InternedFromT(st0, T, GenOut(g, input))
        st1 == [interned |-> gen.interned,
                memoized |-> [table EXCEPT ![T] = OrInsert(@, key, gen.entry)],
                heap |-> gen.heap]
        into == InternedFromStatic(st1, T, st1.memoized[T][key])
    IN [interned |-> into.interned,
        memoized |-> into.memoized,
        heap |-> into.heap,
        entry |-> into.entry,
        ran |-> 1]

\* Faulty variant of MemoizedFrom: an occupied key is regenerated too, and the entry
\* replaced by the new record.
MemoizedFrom_Regenerate(st, T, scope, input, g) ==
    LET key == MemoKey(T, scope, input)
        table == WithBucket(st.memoized, T)
        st0 == [interned |-> st.interned, memoized |-> table, heap |-> st.heap]
        occupied == key \in DOMAIN table[T]
        gen == InternedFromT(st0, T, GenOut(g, input))
        st1 == [interned |-> gen.interned,
                memoized |-> [table EXCEPT ![T] = OrInsert_Overwrite(@, key, gen.entry)],
                heap |-> gen.heap]
        into == InternedFromStatic(st1, T, st1.memoized[T][key])
    IN [interned |-> into.interned,
        memoized |-> into.memoized,
        heap |-> into.heap,
        entry |-> into.entry,
        ran |-> IF occupied THEN 0 ELSE 1]

\* Memoized::from of memoized.rs. On a vacant key the generator runs and
\* returns an Interned handle (it interns its output, as input.len().into()
\* does); the handle's record goes into the memo table. The record found or
\* stored is then converted with From<Static>.
\* The result adds the entry returned and how often the generator ran.
MemoizedFrom(st, T, scope, input, g) ==
    LET key == MemoKey(T, scope, input)
        table == WithBucket(st.memoized, T)
        st0 == [interned |-> st.interned, memoized |-> table, heap |-> st.heap]
        occupied == key \in DOMAIN table[T]
        gen == InternedFromT(st0, T, GenOut(g, input))
        st1 == IF occupied THEN st0
               ELSE [interned |-> gen.interned,
                     memoized |-> [table EXCEPT ![T] = (key :> gen.entry) @@ @],
                     heap |-> gen.heap]
        value_static == st1.memoized[T][key]
        into == InternedFromStatic(st1, T, value_static)
    IN [interned |-> into.interned,
        memoized |-> into.memoized,
        heap |-> into.heap,
        entry |-> into.entry,
        ran |-> IF occupied THEN 0 ELSE 1]

\* Faulty variant of MemoizedFromLib: the handle wraps the memo table's record as it
\* is, without converting it through the canonical store.
MemoizedFromLib_NoInto(st, T, input, g) ==
    LET key == MemoKeyLib(T, input)
        table == WithBucket(st.memoized, T)
        occupied == key \in DOMAIN table[T]
        made == ToStatic(st.heap, T, GenOut(g, input))
    IN [interned |-> st.interned,
        memoized |-> IF occupied THEN table ELSE [table EXCEPT ![T] = (key :> made.static) @@ @],
        heap |-> IF occupied THEN st.heap ELSE made.heap,
        entry |-> IF occupied THEN table[T][key] ELSE made.static,
        ran |-> IF occupied THEN 0 ELSE 1]

\* Faulty variant of MemoizedFromLib: one namespace for both tables, a key that
\* is a hash of the type's bucket of the canonical store counts as memoized.
MemoizedFromLib_OneNamespace(st, T, input, g) ==
    LET key == MemoKeyLib(T, input)
        table == WithBucket(st.memoized, T)
        stored == T \in DOMAIN st.interned /\ key \in DOMAIN st.interned[T]
        occupied == key \in DOMAIN table[T] \/ stored
        made == ToStatic(st.heap, T, GenOut(g, input))
        st1 == IF key \in DOMAIN table[T]
               THEN [interned |-> st.interned, memoized |-> table, heap |-> st.heap]
               ELSE IF stored
               THEN [interned |-> st.interned,
                     memoized |-> [table EXCEPT ![T] = (key :> st.interned[T][key]) @@ @],
                     heap |-> st.heap]
               ELSE [interned |-> st.interned,
                     memoized |-> [table EXCEPT ![T] = (key :> made.static) @@ @],
                     heap |-> made.heap]
        value_static == st1.memoized[T][key]
        into == InternedFromStatic(st1, T, value_static)
    IN [interned |-> into.interned,
        memoized |-> into.memoized,
        heap |-> into.heap,
        entry |-> into.entry,
        ran |-> IF occupied THEN 0 ELSE 1]

\* Faulty variant of MemoizedFromLib: on an occupied key the payload found is
\* boxed again and the new record replaces the entry.
MemoizedFromLib_Rebox(st, T, input, g) ==
    LET key == MemoKeyLib(T, input)
        table == WithBucket(st.memoized, T)
        occupied == key \in DOMAIN table[T]
        made == ToStatic(st.heap, T, IF occupied THEN AsValue(st.heap, table[T][key])
                                     ELSE GenOut(g, input))
        st1 == [interned |-> st.interned,
                memoized |-> [table EXCEPT ![T] = (key :> made.static) @@ @],
                heap |-> made.heap]
        into == InternedFromStatic(st1, T, made.static)
    IN [interned |-> into.interned,
        memoized |-> into.memoized,
        heap |-> into.heap,
        entry |-> into.entry,
        ran |-> IF occupied THEN 0 ELSE 1]

\* Memoized::from of lib.rs. On a vacant key the generator runs and returns a
\* plain value; to_static() boxes it in a fresh record, which goes into the
\* memo table. The record found or stored is then converted with From<Static>.
MemoizedFromLib(st, T, input, g) ==
    LET key == MemoKeyLib(T, input)
        table == WithBucket(st.memoized, T)
        occupied == key \in DOMAIN table[T]
        made == ToStatic(st.heap, T, GenOut(g, input))
        st1 == IF occupied
               THEN [interned |-> st.interned, memoized |-> table, heap |-> st.heap]
               ELSE [interned |-> st.interned,
                     memoized |-> [table EXCEPT ![T] = (key :> made.static) @@ @],
                     heap |-> made.heap]
        value_static == st1.memoized[T][key]
        into == InternedFromStatic(st1, T, value_static)
    IN [interned |-> into.interned,
        memoized |-> into.memoized,
        heap |-> into.heap,
        entry |-> into.entry,
        ran |-> IF occupied THEN 0 ELSE 1]

\* ------------------------------------------------------------------ slices, strings
\* Length of the caller's slice buffer.
BufLen == 2

\* The elements a caller writes into its buffer.
Elems == {0, 1}

\* The strings callers pass: "a" and "b", as byte sequences.
Strs == {<<97>>, <<98>>}

\* The address of the caller's own buffer (let slice = &mut [..]); the leaked
\* payloads lie behind it.
BufAddr == 1

\* <[T] as Hash>::hash: the length, then the elements.
SliceHash(content) == Finish(Write(HasherDefault, <<Len(content)>> \o content))

\* <str as Hash>::hash: the bytes, then 0xff.
StrHash(string) == Finish(Write(HasherDefault, string \o <<255>>))

\* Faulty variant of StaticSliceWithHash: the record keeps the caller's
\* pointer, nothing is allocated or copied.
StaticSliceWithHash_Alias(hp, slice, hopt) ==
    LET hash == IF hopt = None THEN SliceHash(hp[slice]) ELSE hopt[1]
    IN [static |-> [kind |-> "Slice", ptr |-> slice, hash |-> hash],
        heap |-> hp]

\* StaticSlice::with_hash: allocates an array of the slice's length at a
\* fresh address and copies the elements into it (std::ptr::copy). `slice` is
\* the address of the caller's slice.
StaticSliceWithHash(hp, slice, hopt) ==
    LET hash == IF hopt = None THEN SliceHash(hp[slice]) ELSE hopt[1]
        ptr == Len(hp) + 1
    IN [static |-> [kind |-> "Slice", ptr |-> ptr, hash |-> hash],
        heap |-> Append(hp, hp[slice])]

\* Faulty variant of StaticStrWithHash: the boxed bytes are wrapped as a
\* Static::Slice.
StaticStrWithHash_AsSlice(hp, string, hopt) ==
    LET hash == IF hopt = None THEN StrHash(string) ELSE hopt[1]
        ptr == Len(hp) + 1
    IN [static |-> [kind |-> "Slice", ptr |-> ptr, hash |-> hash],
        heap |-> Append(hp, string)]

\* StaticStr::with_hash: boxes a copy of the string (Box::leak(Box::from)).
StaticStrWithHash(hp, string, hopt) ==
    LET hash == IF hopt = None THEN StrHash(string) ELSE hopt[1]
        ptr == Len(hp) + 1
    IN [static |-> [kind |-> "Str", ptr |-> ptr, hash |-> hash],
        heap |-> Append(hp, string)]

\* Faulty variant of InternedFromSlice: a record is built and stored on every
\* call, replacing the one the bucket held.
InternedFromSlice_Replace(st, T, slice) ==
    LET hash == SliceHash(st.heap[slice])
        table == WithBucket(st.interned, T)
        made == StaticSliceWithHash(st.heap, slice, Some(hash))
    IN [interned |-> [table EXCEPT ![T] = (hash :> made.static) @@ @],
        memoized |-> st.memoized,
        heap |-> made.heap,
        entry |-> made.static]

\* impl From<T> for Interned<T::Static> at T = &[u8]: hashes the slice, and
\* builds a record (to_static_with_hash = Static::from_slice) only when the
\* hash is absent from the type's bucket.
InternedFromSlice(st, T, slice) ==
    LET hash == SliceHash(st.heap[slice])
        table == WithBucket(st.interned, T)
        made == StaticSliceWithHash(st.heap, slice, Some(hash))
    IN IF hash \in DOMAIN table[T]
       THEN [interned |-> table,
             memoized |-> st.memoized,
             heap |-> st.heap,
             entry |-> table[T][hash]]
       ELSE [interned |-> [table EXCEPT ![T] = (hash :> made.static) @@ @],
             memoized |-> st.memoized,
             heap |-> made.heap,
             entry |-> made.static]

\* impl From<T> for Interned<T::Static> at T = &str: hashes the string, and
\* builds a record (to_static_with_hash = Static::from_str) only when the
\* hash is absent from the type's bucket.
InternedFromStr(st, T, string) ==
    LET hash == StrHash(string)
        table == WithBucket(st.interned, T)
        made == StaticStrWithHash(st.heap, string, Some(hash))
    IN IF hash \in DOMAIN table[T]
       THEN [interned |-> table,
             memoized |-> st.memoized,
             heap |-> st.heap,
             entry |-> table[T][hash]]
       ELSE [interned |-> [table EXCEPT ![T] = (hash :> made.static) @@ @],
             memoized |-> st.memoized,
             heap |-> made.heap,
             entry |-> made.static]

\* The outcome of an accessor: a panic, or the view returned.
Panic == [panic |-> TRUE, out |-> <<>>]
Ok(x) == [panic |-> FALSE, out |-> x]

\* The views an accessor can be asked for.
Shapes == {"Slice", "Value", "Str"}

\* Faulty variant of StaticAs: the pointer is reinterpreted whatever the
\* record's variant is.
StaticAs_Unchecked(hp, static, shape) == Ok(hp[static.ptr])

\* Static::as_slice, Static::as_value, Static::as_str: the view of the
\* variant asked for, and a panic on every other variant.
StaticAs(hp, static, shape) ==
    IF static.kind = shape THEN Ok(hp[static.ptr]) ELSE Panic

\* ------------------------------------------------------------------ threads
\* The threads of a program: the main thread and one it spawned.
Threads == {"main", "worker"}

\* Faulty variant of LocalKey: a plain static, one instance for all threads.
LocalKey_Static(t) == "main"

\* thread_local! / LocalKey::with: the instance a thread t reaches through
\* INTERNED.with(..) or MEMOIZED.with(..) is its own.
LocalKey(t) == t

\* The fields of the structs a handle is made of; a raw pointer is written
\* "*const".
FieldsOf(ty) ==
    CASE ty = "Memoized" -> {"PhantomData", "Interned"}
      [] ty = "Interned" -> {"PhantomData", "Static"}
      [] ty = "Static" -> {"StaticValue", "StaticSlice", "StaticStr"}
      [] ty = "StaticValue" -> {"*const", "u64"}
      [] ty = "StaticSlice" -> {"*const", "u64"}
      [] ty = "StaticStr" -> {"*const", "u64"}
      [] OTHER -> {}

\* Whether a type is Send and Sync: the auto traits hold of a struct or enum
\* when they hold of all its fields, and not of a raw pointer.
RECURSIVE SendSync(_)
SendSync(ty) == ty # "*const" /\ \A f \in FieldsOf(ty) : SendSync(f)

\* ------------------------------------------------------------------ state
VARIABLES
    build,       \* "modules": Memoized::from of memoized.rs; "lib": of lib.rs
    INTERNED,    \* thread-local canonical store: type -> (hash -> Static)
    MEMOIZED,    \* thread-local memo table: type -> (key -> Static)
    heap,        \* leaked payloads; the address of a payload is its index
    ops,         \* operations done so far
    last,        \* the call that ended last: arguments, result, and what held before it
    log,         \* per type, what the calls so far were given and returned
    held,        \* the records and handles the caller got from the slice and raw layer
    view,        \* the accessor call that ended last, its outcome and its position
    tls,         \* with several threads: thread -> its instances of the two thread-locals
    alone,       \* with several threads: thread -> the same calls run on a thread alone
    stack,       \* step by step: the Memoized::from calls in progress, innermost last
    done         \* step by step: how the last call to end ended, and which keys' generators panicked

vars == <<build, INTERNED, MEMOIZED, heap, ops, last, log, held, view, tls, alone, stack, done>>

\* The variables the calls of one thread on values and memoized values leave
\* alone.
aside == <<held, view, tls, alone, stack, done>>

Store == [interned |-> INTERNED, memoized |-> MEMOIZED, heap |-> heap]

NoStatic == [kind |-> "None", ptr |-> 0, hash |-> 0 - 1]

\* The memo key of the build at hand.
KeyOf(T, scope, input) ==
    IF build = "modules" THEN MemoKey(T, scope, input) ELSE MemoKeyLib(T, input)

\* impl PartialEq for Interned<T>: delegates to Static::_partial_eq, the one of
\* the build at hand.
InternedEq(a, b) ==
    IF build = "modules" THEN PartialEq(a, b) ELSE PartialEqLib(heap, a, b)

\* The hash under which a call hands its value to the canonical store.
HashGiven(T, v, hopt) == IF hopt = None THEN ContentHash(T, v) ELSE hopt[1]

\* map with k bound to x, unless k is bound already.
PutNew(map, k, x) == IF k \in DOMAIN map THEN map ELSE (k :> x) @@ map

\* log[T] is a record of
\*   intern:  value -> `first`, the Static the first Interned::from(value)
\*            returned, and `calls`, the number of such calls
\*   gen:     value -> the Static returned by the first memoize call whose
\*            generator ran and produced value
\*   memo:    <<scope, input>> -> the first call for the pair: the Static it
\*            returned (`first`), what its generator computes from the input
\*            (`out`), its memo key (`key`), its position (`at`), and
\*            `runs`, the generator runs of all calls for the pair
\*   key:     memo key -> the first call for the key: its pair, the value its
\*            generator produced (`out`), the value its handle read back
\*   firstAt: content hash -> the value first stored under it
\*   values:  the values handed to the canonical store so far
NoLog == [intern |-> EmptyMap, gen |-> EmptyMap, memo |-> EmptyMap, key |-> EmptyMap,
          firstAt |-> EmptyMap, values |-> {}]

\* The log after value v was handed to the store under hash h.
Stored(lg, v, h) ==
    [lg EXCEPT !.firstAt = PutNew(@, h, v), !.values = @ \cup {v}]

\* Whether hash is a key of the type's bucket of the canonical store.
HashSeen(T, hash) == T \in DOMAIN INTERNED /\ hash \in DOMAIN INTERNED[T]

\* `last`: which call, on which type, with which arguments; the Static of the
\* handle returned; how often the generator ran; the count a counter call
\* returned; and facts of the state before the call: the two counters of the
\* type; whether the pair, its memo key, the value handed to the canonical
\* store (val) and the hash it was handed under had been given by an earlier
\* call; and the record the bucket held under that hash, if any.
Call(op, T, arg, scope, g, hopt, ret, ran, len, val, hash) ==
    [op |-> op, typ |-> T, arg |-> arg, scope |-> scope, gen |-> g, hopt |-> hopt,
     ret |-> ret, ran |-> ran, len |-> len,
     preInterned |-> Len_(INTERNED, T),
     preMemoized |-> Len_(MEMOIZED, T),
     seenPair |-> IF op = "memoize" THEN <<scope, arg>> \in DOMAIN log[T].memo ELSE FALSE,
     seenKey |-> IF op = "memoize" THEN KeyOf(T, scope, arg) \in DOMAIN log[T].key ELSE FALSE,
     seenVal |-> val \in log[T].values,
     hashSeen |-> hash \in DOMAIN log[T].firstAt,
     preEntry |-> IF HashSeen(T, hash) THEN INTERNED[T][hash] ELSE NoStatic]

\* `last` before any call.
NoCall == [op |-> "init", typ |-> "None", arg |-> None, scope |-> <<>>, gen |-> "None",
           hopt |-> None, ret |-> NoStatic, ran |-> 0, len |-> 0,
           preInterned |-> 0, preMemoized |-> 0,
           seenPair |-> FALSE, seenKey |-> FALSE, seenVal |-> FALSE,
           hashSeen |-> FALSE, preEntry |-> NoStatic]

\* `view` before any accessor call.
NoView == [static |-> NoStatic, shape |-> "None", panic |-> FALSE, out |-> <<>>, at |-> 0]

\* `done` before any call run step by step.
NoneDone == [outcome |-> "None", typ |-> "None", key |-> 0 - 1, ret |-> NoStatic,
             depth |-> 0, outer |-> <<"None", 0 - 1>>, failed |-> {}]

\* One thread, nothing got from the slice and raw layer, no call in progress.
InitAside ==
    /\ held = <<>>
    /\ view = NoView
    /\ tls = EmptyMap
    /\ alone = EmptyMap
    /\ stack = <<>>
    /\ done = NoneDone

Init ==
    /\ build \in {"modules", "lib"}
    /\ INTERNED = EmptyMap
    /\ MEMOIZED = EmptyMap
    /\ heap = <<>>
    /\ ops = 0
    /\ last = NoCall
    /\ log = [T \in Types |-> NoLog]
    /\ InitAside

\* Interned::from(value): the typed entry point.
Intern(T, v) ==
    /\ ops < MaxOps
    /\ LET r == InternedFromT(Store, T, v) IN
        /\ INTERNED' = r.interned
        /\ MEMOIZED' = r.memoized
        /\ heap' = r.heap
        /\ last' = Call("intern", T, v, <<>>, "None", None, r.entry, 0, 0,
                        v, ContentHash(T, v))
        /\ log' = [log EXCEPT ![T] =
                    [Stored(@, v, ContentHash(T, v)) EXCEPT
                        !.intern = IF v \in DOMAIN @
                                   THEN [@ EXCEPT ![v].calls = @ + 1]
                                   ELSE (v :> [first |-> r.entry, calls |-> 1]) @@ @]]
    /\ ops' = ops + 1
    /\ UNCHANGED <<build, aside>>

\* The hashes a caller supplies for value v in place of the computed one: the
\* content hashes of the other values of the type.
OverrideHashes(T, v) == {ContentHash(T, w) : w \in Values(T) \ {v}}

\* Interned::<T>::from(value.to_static_with_hash(hopt)): the caller builds the
\* record, with a hash of its own choice or the computed one, and hands it in.
InternStatic(T, v, hopt) ==
    /\ ops < MaxOps
    /\ LET made == ToStaticWithHash(heap, T, v, hopt)
           r == InternedFromStatic([interned |-> INTERNED, memoized |-> MEMOIZED,
                                    heap |-> made.heap], T, made.static)
       IN
        /\ INTERNED' = r.interned
        /\ MEMOIZED' = r.memoized
        /\ heap' = r.heap
        /\ last' = Call("intern_static", T, v, <<>>, "None", hopt, r.entry, 0, 0,
                        v, HashGiven(T, v, hopt))
        /\ log' = [log EXCEPT ![T] = Stored(@, v, HashGiven(T, v, hopt))]
    /\ ops' = ops + 1
    /\ UNCHANGED <<build, aside>>

\* The log after a memoize call for <<scope, input>> with generator g that
\* returned `entry`, whose payload reads `read`, after `ran` generator runs.
Memoized_(lg, key, scope, input, g, T, entry, read, ran) ==
    LET pair == <<scope, input>>
        out == GenOut(g, input)
        lg1 == IF ran = 1
               THEN [Stored(lg, out, ContentHash(T, out)) EXCEPT !.gen = PutNew(@, out, entry)]
               ELSE lg
    IN [lg1 EXCEPT
          !.memo = IF pair \in DOMAIN @
                   THEN [@ EXCEPT ![pair].runs = @ + ran]
                   ELSE (pair :> [first |-> entry, out |-> out, key |-> key,
                                  runs |-> ran, at |-> ops + 1]) @@ @,
          !.key = PutNew(@, key, [pair |-> pair, out |-> out, read |-> read])]

\* Memoized::from(scope, input, generator) of memoized.rs.
Memoize(T, scope, input, g) ==
    /\ build = "modules"
    /\ ops < MaxOps
    /\ LET r == MemoizedFrom(Store, T, scope, input, g) IN
        /\ INTERNED' = r.interned
        /\ MEMOIZED' = r.memoized
        /\ heap' = r.heap
        /\ last' = Call("memoize", T, input, scope, g, None, r.entry, r.ran, 0,
                        GenOut(g, input), ContentHash(T, GenOut(g, input)))
        /\ log' = [log EXCEPT ![T] =
                    Memoized_(@, KeyOf(T, scope, input), scope, input, g, T, r.entry,
                              AsValue(r.heap, r.entry), r.ran)]
    /\ ops' = ops + 1
    /\ UNCHANGED <<build, aside>>

\* Memoized::from(input, generator) of lib.rs; it has no scope, which the
\* log records as the unit scope.
MemoizeLib(T, input, g) ==
    /\ build = "lib"
    /\ ops < MaxOps
    /\ LET r == MemoizedFromLib(Store, T, input, g) IN
        /\ INTERNED' = r.interned
        /\ MEMOIZED' = r.memoized
        /\ heap' = r.heap
        /\ last' = Call("memoize", T, input, <<>>, g, None, r.entry, r.ran, 0,
                        GenOut(g, input), ContentHash(T, GenOut(g, input)))
        /\ log' = [log EXCEPT ![T] =
                    Memoized_(@, KeyOf(T, <<>>, input), <<>>, input, g, T, r.entry,
                              AsValue(r.heap, r.entry), r.ran)]
    /\ ops' = ops + 1
    /\ UNCHANGED <<build, aside>>

\* num_interned::<T>().
NumInterned(T) ==
    /\ ops < MaxOps
    /\ LET r == NumOf(INTERNED, T) IN
        /\ INTERNED' = r.table
        /\ last' = Call("num_interned", T, None, <<>>, "None", None, NoStatic, 0, r.len,
                        0 - 1, 0 - 1)
    /\ ops' = ops + 1
    /\ UNCHANGED <<build, MEMOIZED, heap, log, aside>>

\* num_memoized::<T>().
NumMemoized(T) ==
    /\ ops < MaxOps
    /\ LET r == NumOf(MEMOIZED, T) IN
        /\ MEMOIZED' = r.table
        /\ last' = Call("num_memoized", T, None, <<>>, "None", None, NoStatic, 0, r.len,
                        0 - 1, 0 - 1)
    /\ ops' = ops + 1
    /\ UNCHANGED <<build, INTERNED, heap, log, aside>>

Next ==
    \/ \E T \in Types : \E v \in Values(T) : Intern(T, v)
    \/ \E T \in Types : \E v \in Values(T) :
            \E hopt \in {None} \cup {Some(h) : h \in OverrideHashes(T, v)} :
                InternStatic(T, v, hopt)
    \/ \E T \in Types, scope \in Scopes, input \in Inputs, g \in Gens :
            Memoize(T, scope, input, g)
    \/ \E T \in Types, input \in Inputs, g \in Gens : MemoizeLib(T, input, g)
    \/ \E T \in Types : NumInterned(T)
    \/ \E T \in Types : NumMemoized(T)

Spec == Init /\ [][Next]_vars

\* ------------------------------------------------------------------ claims
\* The pair and the memo key of the memoize call `last` records.
LastPair == <<last.scope, last.arg>>
LastKey == KeyOf(last.typ, last.scope, last.arg)
\* The value the generator of that call computes from its input.
LastOut == GenOut(last.gen, last.arg)

\* C1: any two Interned::from calls of one type with equal values return
\* handles with the same raw identity, whatever was interned or memoized in
\* between: every such call returns the address the first one returned.
C1_SameValueSameIdentity ==
    last.op = "intern" =>
        AsPtr(last.ret) = AsPtr(log[last.typ].intern[last.arg].first)

\* C1 witness: the second Interned::from of a value returns the first
\* allocation, after another operation allocated in between.
C1_Witness ==
    /\ last.op = "intern"
    /\ log[last.typ].intern[last.arg].calls = 2
    /\ AsPtr(last.ret) = 1
    /\ Len(heap) >= 2

\* C2: the generator runs at most once per (scope, input) pair of an output
\* type; a memoize call for a pair given before does not run its generator
\* and returns the handle the first call for the pair returned.
C2_GeneratorAtMostOnce ==
    /\ \A T \in Types : \A p \in DOMAIN log[T].memo : log[T].memo[p].runs <= 1
    /\ (last.op = "memoize" /\ last.seenPair) =>
            /\ last.ran = 0
            /\ last.ret = log[last.typ].memo[LastPair].first

\* C2 witness: a repeated memoize call for a pair whose first call ran the
\* generator.
C2_Witness ==
    /\ last.op = "memoize"
    /\ last.seenPair
    /\ log[last.typ].memo[LastPair].runs = 1

\* The pairs memoized so far for a type, and what the log holds for one.
Pairs(T) == DOMAIN log[T].memo
Memo(T, p) == log[T].memo[p]

\* C3: two memoize calls with different (scope, input) pairs and one
\* output type whose generators produce equal outputs each run their
\* generator once and return handles of equal raw identity.
C3_EachRunsOnce ==
    \A T \in Types : \A p1 \in Pairs(T), p2 \in Pairs(T) :
        (p1 # p2 /\ Memo(T, p1).out = Memo(T, p2).out) =>
            /\ Memo(T, p1).runs = 1
            /\ Memo(T, p2).runs = 1
            /\ AsPtr(Memo(T, p1).first) = AsPtr(Memo(T, p2).first)

\* The handles the typed entry points returned for a value: the one
\* Interned::from returned, and the one a memoize call that generated the
\* value returned.
HandlesOf(T, v) ==
    (IF v \in DOMAIN log[T].intern THEN {log[T].intern[v].first} ELSE {})
        \cup (IF v \in DOMAIN log[T].gen THEN {log[T].gen[v]} ELSE {})

\* C4: two values of one type whose content hashes differ never share a
\* record: the handles returned for them have different raw identities and
\* compare unequal.
C4_Separation ==
    \A T \in Types : \A v1 \in Values(T), v2 \in Values(T) :
        ContentHash(T, v1) # ContentHash(T, v2) =>
            \A a \in HandlesOf(T, v1), b \in HandlesOf(T, v2) :
                AsPtr(a) # AsPtr(b) /\ ~InternedEq(a, b)

\* The hash under which the call `last` records handed a record to the
\* canonical store.
LastHash ==
    IF last.op = "memoize" THEN ContentHash(last.typ, LastOut)
    ELSE HashGiven(last.typ, last.arg, last.hopt)

\* C5: every type bucket of the canonical store holds at most one record per
\* content hash (each record sits under its own hash code), and an insert
\* whose hash is already in the bucket returns the record stored there and
\* leaves the bucket as it was.
C5_FirstWriterWins ==
    /\ [](\A T \in DOMAIN INTERNED : \A h \in DOMAIN INTERNED[T] :
            /\ HashCode(INTERNED[T][h]) = h
            /\ Cardinality({k \in DOMAIN INTERNED[T] : HashCode(INTERNED[T][k]) = h}) = 1)
    /\ [][(/\ last'.op \in {"intern", "intern_static"}
           /\ HashSeen(last'.typ, LastHash')) =>
                /\ last'.ret = INTERNED[last'.typ][LastHash']
                /\ INTERNED'[last'.typ] = INTERNED[last'.typ]]_vars

\* C5 witness: a record built by the caller was handed in under a hash the
\* bucket already held, and the handle is the older record.
C5_Witness ==
    /\ last.op = "intern_static"
    /\ last.preEntry # NoStatic
    /\ last.ret = last.preEntry
    /\ AsPtr(last.ret) < Len(heap)

\* C6 as stated: num_interned grows by exactly 1 when a value not yet interned
\* for the type is interned and by 0 when the value was interned before, and
\* it equals the number of distinct values interned for the type.
C6_Original ==
    /\ last.op = "intern" =>
            Len_(INTERNED, last.typ) = last.preInterned + (IF last.seenVal THEN 0 ELSE 1)
    /\ last.op = "num_interned" => last.len = Cardinality(log[last.typ].values)

\* C6 amended: num_interned grows by exactly 1 when a value is interned whose
\* content hash no earlier call handed to the type's bucket, and by 0
\* otherwise; it equals the number of distinct hashes under which values
\* were interned for the type.
C6_CountsHashes ==
    /\ last.op \in {"intern", "intern_static"} =>
            Len_(INTERNED, last.typ) = last.preInterned + (IF last.hashSeen THEN 0 ELSE 1)
    /\ last.op = "num_interned" => last.len = Cardinality(DOMAIN log[last.typ].firstAt)
    /\ \A T \in Types : Len_(INTERNED, T) = Cardinality(DOMAIN log[T].firstAt)

\* C6 witness: a value interned before is interned again while the type has
\* two records, and the counter stays at two.
C6_Witness ==
    /\ last.op = "intern"
    /\ last.seenVal
    /\ last.preInterned = 2
    /\ Len_(INTERNED, last.typ) = 2

\* C7: a memoize call with a (type, scope, input) not seen before
\* adds exactly one entry to the type's memo table, a call with one seen
\* before adds none, and num_memoized equals the number of distinct
\* (scope, input) pairs memoized for the type.
C7_OneEntryPerPair ==
    /\ last.op = "memoize" =>
            Len_(MEMOIZED, last.typ) = last.preMemoized + (IF last.seenPair THEN 0 ELSE 1)
    /\ last.op = "num_memoized" => last.len = Cardinality(Pairs(last.typ))

\* Every key of the table stays, bound to the same record, over a step.
Kept(table, table2) ==
    \A T \in DOMAIN table :
        /\ T \in DOMAIN table2
        /\ \A k \in DOMAIN table[T] :
            k \in DOMAIN table2[T] /\ table2[T][k] = table[T][k]

\* C8: in the canonical store and in the memo table a key that is present
\* stays present and bound to the same record (whose payload stays as it is);
\* num_interned and num_memoized never decrease.
C8_Monotonic ==
    [][/\ Kept(INTERNED, INTERNED')
       /\ Kept(MEMOIZED, MEMOIZED')
       /\ \A a \in 1..Len(heap) : a <= Len(heap') /\ heap'[a] = heap[a]
       /\ \A T \in Types :
            /\ Len_(INTERNED', T) >= Len_(INTERNED, T)
            /\ Len_(MEMOIZED', T) >= Len_(MEMOIZED, T)]_vars

\* C8 witness: an insert into the canonical store added a record to a bucket
\* that held one, next to a memo table with an entry.
C8_Witness ==
    /\ last.op \in {"intern", "intern_static"}
    /\ last.preInterned >= 1
    /\ Len_(INTERNED, last.typ) = last.preInterned + 1
    /\ Len_(MEMOIZED, last.typ) >= 1

\* C9 as stated: the handle memoize returns reads back the value the generator
\* produced on the first call for the key.
C9_Original ==
    last.op = "memoize" =>
        AsValue(heap, last.ret) = log[last.typ].key[LastKey].out

\* C9 amended: the handle memoize returns reads back the value first stored in
\* the canonical store under the content hash of the value the generator
\* produced on the first call for the key, and every later call with the key
\* reads back what the first call read, whatever generator it passes.
C9_ReadsFirstStored ==
    last.op = "memoize" =>
        /\ AsValue(heap, last.ret) =
                log[last.typ].firstAt[ContentHash(last.typ, log[last.typ].key[LastKey].out)]
        /\ AsValue(heap, last.ret) = log[last.typ].key[LastKey].read

\* C9 witness: a later call for a key passes a generator that computes another
\* value, and reads back the value of the first call.
C9_Witness ==
    /\ last.op = "memoize"
    /\ last.seenKey
    /\ LastOut # log[last.typ].key[LastKey].out
    /\ AsValue(heap, last.ret) = log[last.typ].key[LastKey].out

\* C10 as stated: a memoize call that misses with an output equal to a value
\* already interned returns the raw identity of that value's handle and
\* leaves num_interned as it was; with no equal value interned, num_interned
\* grows by exactly 1; a later intern of the output returns the same raw
\* identity.
C10_Original ==
    /\ (last.op = "memoize" /\ last.ran = 1 /\ last.seenVal) =>
            /\ Len_(INTERNED, last.typ) = last.preInterned
            /\ \A a \in HandlesOf(last.typ, LastOut) : AsPtr(last.ret) = AsPtr(a)
    /\ (last.op = "memoize" /\ last.ran = 1 /\ ~last.seenVal) =>
            Len_(INTERNED, last.typ) = last.preInterned + 1
    /\ (last.op = "intern" /\ last.arg \in DOMAIN log[last.typ].gen) =>
            AsPtr(last.ret) = AsPtr(log[last.typ].gen[last.arg])

\* C10 amended: a memoize call that misses with an output whose content hash
\* is already a key of the type's bucket returns the raw identity of the
\* record stored under it (the handle of an equal value interned with
\* Interned::from, if there is one) and leaves num_interned as it was; with
\* the hash absent, num_interned grows by exactly 1; a later intern of the
\* output returns the same raw identity.
C10_MissReusesRecord ==
    /\ (last.op = "memoize" /\ last.ran = 1 /\ last.preEntry # NoStatic) =>
            /\ Len_(INTERNED, last.typ) = last.preInterned
            /\ AsPtr(last.ret) = AsPtr(last.preEntry)
    /\ (last.op = "memoize" /\ last.ran = 1) =>
            \A a \in HandlesOf(last.typ, LastOut) : AsPtr(last.ret) = AsPtr(a)
    /\ (last.op = "memoize" /\ last.ran = 1 /\ last.preEntry = NoStatic) =>
            Len_(INTERNED, last.typ) = last.preInterned + 1
    /\ (last.op = "intern" /\ last.arg \in DOMAIN log[last.typ].gen) =>
            AsPtr(last.ret) = AsPtr(log[last.typ].gen[last.arg])

\* C10 witness: a memoize call missed with an output that Interned::from had
\* interned before, and returned that handle's address.
C10_Witness ==
    /\ last.op = "memoize"
    /\ last.ran = 1
    /\ LastOut \in DOMAIN log[last.typ].intern
    /\ AsPtr(last.ret) = AsPtr(log[last.typ].intern[LastOut].first)
    /\ Len_(INTERNED, last.typ) = last.preInterned

\* C11: every record the memo table holds is the canonical record of the
\* canonical store's bucket of its type: the bucket has an entry under the
\* record's hash, and that entry points to the same payload address.
C11_MemoRecordsCanonical ==
    \A T \in DOMAIN MEMOIZED : \A k \in DOMAIN MEMOIZED[T] :
        /\ HashSeen(T, HashCode(MEMOIZED[T][k]))
        /\ AsPtr(INTERNED[T][HashCode(MEMOIZED[T][k])]) = AsPtr(MEMOIZED[T][k])

\* C12: a value that reaches the canonical store under a hash the type's
\* bucket already holds (a collision, or a hash the caller supplied) is taken
\* for the value stored there: the call returns the record the bucket held
\* (the same raw identity), the handle reads back the value first stored
\* under the hash, and the number of records of the type does not change.
C12_SameHashSameRecord ==
    (/\ last.op \in {"intern", "intern_static"}
     /\ last.preEntry # NoStatic) =>
        /\ last.ret = last.preEntry
        /\ AsPtr(last.ret) = AsPtr(INTERNED[last.typ][LastHash])
        /\ AsValue(heap, last.ret) = log[last.typ].firstAt[LastHash]
        /\ Len_(INTERNED, last.typ) = last.preInterned

\* C12 witness: a value was handed in under the hash of another value stored
\* before, and the handle reads back the other value.
C12_Witness ==
    /\ last.op \in {"intern", "intern_static"}
    /\ last.preEntry # NoStatic
    /\ AsValue(heap, last.ret) # last.arg
    /\ AsValue(heap, last.ret) = log[last.typ].firstAt[LastHash]
    /\ Len_(INTERNED, last.typ) = last.preInterned

\* ------------------------------------------------------------------ slice and raw layer
\* What the caller keeps of a record: the Static, and the content it was
\* made from.
Held(static, made) == [static |-> static, made |-> made]

\* The caller starts with a zeroed buffer and empty tables.
InitRaw ==
    /\ build \in {"modules", "lib"}
    /\ INTERNED = EmptyMap
    /\ MEMOIZED = EmptyMap
    /\ heap = <<[i \in 1..BufLen |-> 0]>>
    /\ ops = 0
    /\ last = NoCall
    /\ log = [T \in Types |-> NoLog]
    /\ InitAside

\* slice[i] = e: the caller writes into its own buffer.
WriteBuffer(i, e) ==
    /\ ops < MaxOps
    /\ heap[BufAddr][i] # e
    /\ heap' = [heap EXCEPT ![BufAddr][i] = e]
    /\ ops' = ops + 1
    /\ UNCHANGED <<build, INTERNED, MEMOIZED, last, log, held, view, tls, alone, stack, done>>

\* Interned::from(slice.as_slice()).
InternSlice ==
    /\ ops < MaxOps
    /\ LET r == InternedFromSlice(Store, "&[u8]", BufAddr) IN
        /\ INTERNED' = r.interned
        /\ heap' = r.heap
        /\ held' = Append(held, Held(r.entry, heap[BufAddr]))
    /\ ops' = ops + 1
    /\ UNCHANGED <<build, MEMOIZED, last, log, view, tls, alone, stack, done>>

\* Interned::from(string).
InternStr(string) ==
    /\ ops < MaxOps
    /\ LET r == InternedFromStr(Store, "&str", string) IN
        /\ INTERNED' = r.interned
        /\ heap' = r.heap
        /\ held' = Append(held, Held(r.entry, string))
    /\ ops' = ops + 1
    /\ UNCHANGED <<build, MEMOIZED, last, log, view, tls, alone, stack, done>>

\* Interned::from(value), the handle kept by the caller.
InternValue(T, v) ==
    /\ ops < MaxOps
    /\ LET r == InternedFromT(Store, T, v) IN
        /\ INTERNED' = r.interned
        /\ heap' = r.heap
        /\ held' = Append(held, Held(r.entry, v))
    /\ ops' = ops + 1
    /\ UNCHANGED <<build, MEMOIZED, last, log, view, tls, alone, stack, done>>

\* StaticSlice::from(slice): a raw record, outside the canonical store.
StaticSliceFrom ==
    /\ ops < MaxOps
    /\ LET made == StaticSliceWithHash(heap, BufAddr, None) IN
        /\ heap' = made.heap
        /\ held' = Append(held, Held(made.static, heap[BufAddr]))
    /\ ops' = ops + 1
    /\ UNCHANGED <<build, INTERNED, MEMOIZED, last, log, view, tls, alone, stack, done>>

\* StaticValue::from(v): a raw record of a value.
StaticValueFrom(T, v) ==
    /\ ops < MaxOps
    /\ LET made == StaticValueWithHash(heap, T, v, None) IN
        /\ heap' = made.heap
        /\ held' = Append(held, Held(made.static, v))
    /\ ops' = ops + 1
    /\ UNCHANGED <<build, INTERNED, MEMOIZED, last, log, view, tls, alone, stack, done>>

\* StaticStr::from(string): a raw record of a string.
StaticStrFrom(string) ==
    /\ ops < MaxOps
    /\ LET made == StaticStrWithHash(heap, string, None) IN
        /\ heap' = made.heap
        /\ held' = Append(held, Held(made.static, string))
    /\ ops' = ops + 1
    /\ UNCHANGED <<build, INTERNED, MEMOIZED, last, log, view, tls, alone, stack, done>>

\* as_slice / as_value / as_str on the i-th record the caller holds.
Access(i, shape) ==
    /\ ops < MaxOps
    /\ LET r == StaticAs(heap, held[i].static, shape) IN
        view' = [static |-> held[i].static, shape |-> shape,
                 panic |-> r.panic, out |-> r.out, at |-> ops + 1]
    /\ ops' = ops + 1
    /\ UNCHANGED <<build, INTERNED, MEMOIZED, heap, last, log, held, tls, alone, stack, done>>

NextRaw ==
    \/ \E i \in 1..BufLen, e \in Elems : WriteBuffer(i, e)
    \/ InternSlice
    \/ StaticSliceFrom
    \/ \E T \in Types : \E v \in Values(T) : StaticValueFrom(T, v)
    \/ \E string \in Strs : StaticStrFrom(string)
    \/ \E i \in 1..Len(held), shape \in Shapes : Access(i, shape)
    \/ \E T \in Types : \E v \in Values(T) : InternValue(T, v)
    \/ \E string \in Strs : InternStr(string)
    \/ \E T \in Types, input \in Inputs : Memoize(T, <<>>, input, "len")
    \/ \E T \in Types, input \in Inputs : MemoizeLib(T, input, "len")

SpecRaw == InitRaw /\ [][NextRaw]_vars

\* Whether the record is the type's bucket entry of the canonical store.
InStore(T, static) ==
    HashSeen(T, HashCode(static)) /\ INTERNED[T][HashCode(static)] = static

\* C13: interning a slice, or building a raw slice record from it, copies
\* the elements into storage of its own: whatever the caller writes into its
\* buffer afterwards, every record reads the elements it was made from, and
\* no write to the buffer changes what a record reads.
C13_SliceCopied ==
    /\ [](\A i \in 1..Len(held) :
            held[i].static.kind = "Slice" =>
                /\ AsPtr(held[i].static) # BufAddr
                /\ StaticAs(heap, held[i].static, "Slice") = Ok(held[i].made))
    /\ [][heap'[BufAddr] # heap[BufAddr] =>
            \A i \in 1..Len(held) :
                StaticAs(heap', held[i].static, "Slice")
                    = StaticAs(heap, held[i].static, "Slice")]_vars

\* C13 witness: the caller holds an interned slice and a raw slice record,
\* and its buffer no longer has the elements either was made from.
C13_Witness ==
    /\ \E i \in 1..Len(held) :
        /\ held[i].static.kind = "Slice"
        /\ InStore("&[u8]", held[i].static)
        /\ held[i].made # heap[BufAddr]
        /\ StaticAs(heap, held[i].static, "Slice") = Ok(held[i].made)
    /\ \E i \in 1..Len(held) :
        /\ held[i].static.kind = "Slice"
        /\ ~InStore("&[u8]", held[i].static)
        /\ held[i].made # heap[BufAddr]

\* The records of the handles of type T: every handle wraps an entry of the
\* type's bucket.
Handles(T) ==
    IF T \in DOMAIN INTERNED THEN {INTERNED[T][h] : h \in DOMAIN INTERNED[T]} ELSE {}

\* C14: two handles of one type compare equal exactly when their content
\* hashes are equal, whatever their addresses and payloads are.
C14_EqualityByHash ==
    \A T \in DOMAIN INTERNED : \A a \in Handles(T), b \in Handles(T) :
        InternedEq(a, b) <=> (HashCode(a) = HashCode(b))

\* impl Ord / PartialOrd for Interned<T>: delegates to Static::_cmp::<T>; the
\* set of possible results.
InternedCmp(a, b) == StaticCmp(heap, TypeOfKind(a.kind), a, b)

C16_EqualThenSameIdentity ==
    \A T \in DOMAIN INTERNED : \A a \in Handles(T), b \in Handles(T) :
        InternedEq(a, b) => AsPtr(a) = AsPtr(b)

\* C17: an accessor asked for a view of another shape than the record's kind
\* (a slice view of a Value or Str record, a value view of a Slice or Str
\* record, a text view of a Value or Slice record) panics, and the call
\* leaves the canonical store, the memo table and the payloads as they were.
C17_WrongViewPanics ==
    /\ [](view.shape # "None" /\ view.shape # view.static.kind => view.panic)
    /\ [][view'.at # view.at =>
            /\ view'.shape # view'.static.kind => view'.panic
            /\ INTERNED' = INTERNED
            /\ MEMOIZED' = MEMOIZED
            /\ heap' = heap]_vars

\* C17 witness: with records in both tables, a slice view was asked of a
\* Value record and the call panicked.
C17_Witness ==
    /\ view.panic
    /\ view.static.kind = "Value"
    /\ view.shape = "Slice"
    /\ Len_(INTERNED, "usize") >= 1
    /\ Len_(MEMOIZED, "usize") >= 1

\* ------------------------------------------------------------------ several threads
\* What a call lets its caller observe: the value the handle returned reads
\* back, whether the generator ran, and the counter of the type afterwards.
Obs(read, ran, len) == [read |-> read, ran |-> ran, len |-> len]

\* The tables of a thread that made no call yet.
NoTables == [interned |-> EmptyMap, memoized |-> EmptyMap]

\* Every thread starts with empty instances of the two thread-locals; the
\* payloads of all threads come from one allocator.
InitThreads ==
    /\ build \in {"modules", "lib"}
    /\ INTERNED = EmptyMap
    /\ MEMOIZED = EmptyMap
    /\ heap = <<>>
    /\ ops = 0
    /\ last = NoCall
    /\ log = [T \in Types |-> NoLog]
    /\ held = <<>>
    /\ view = NoView
    /\ stack = <<>>
    /\ done = NoneDone
    /\ tls = [t \in Threads |-> NoTables]
    /\ alone = [t \in Threads |->
                    [interned |-> EmptyMap, memoized |-> EmptyMap, heap |-> <<>>,
                     calls |-> 0, here |-> Obs(None, 0, 0), solo |-> Obs(None, 0, 0)]]

\* The store a call of thread t works on: the instances it reaches, and the
\* shared payloads.
StoreOf(t) ==
    [interned |-> tls[LocalKey(t)].interned,
     memoized |-> tls[LocalKey(t)].memoized,
     heap |-> heap]

\* The store of the same calls of thread t, made on a thread running alone.
StoreAlone(t) ==
    [interned |-> alone[t].interned, memoized |-> alone[t].memoized, heap |-> alone[t].heap]

\* A call of thread t ended: r is the store it left and here what it
\* observed; q and solo are the same of the thread running alone.
Ran(t, r, here, q, solo) ==
    /\ tls' = [tls EXCEPT ![LocalKey(t)] = [interned |-> r.interned, memoized |-> r.memoized]]
    /\ heap' = r.heap
    /\ alone' = [alone EXCEPT ![t] =
                    [interned |-> q.interned, memoized |-> q.memoized, heap |-> q.heap,
                     calls |-> @.calls + 1, here |-> here, solo |-> solo]]
    /\ ops' = ops + 1
    /\ UNCHANGED <<build, INTERNED, MEMOIZED, last, log, held, view, stack, done>>

\* Interned::from(value) on thread t.
ThreadIntern(t, T, v) ==
    /\ ops < MaxOps
    /\ LET r == InternedFromT(StoreOf(t), T, v)
           q == InternedFromT(StoreAlone(t), T, v)
       IN Ran(t, r, Obs(Some(AsValue(r.heap, r.entry)), 0, Len_(r.interned, T)),
                 q, Obs(Some(AsValue(q.heap, q.entry)), 0, Len_(q.interned, T)))

\* Memoized::from(scope, input, generator) of memoized.rs on thread t.
ThreadMemoize(t, T, scope, input, g) ==
    /\ build = "modules"
    /\ ops < MaxOps
    /\ LET r == MemoizedFrom(StoreOf(t), T, scope, input, g)
           q == MemoizedFrom(StoreAlone(t), T, scope, input, g)
       IN Ran(t, r, Obs(Some(AsValue(r.heap, r.entry)), r.ran, Len_(r.memoized, T)),
                 q, Obs(Some(AsValue(q.heap, q.entry)), q.ran, Len_(q.memoized, T)))

\* Memoized::from(input, generator) of lib.rs on thread t.
ThreadMemoizeLib(t, T, input, g) ==
    /\ build = "lib"
    /\ ops < MaxOps
    /\ LET r == MemoizedFromLib(StoreOf(t), T, input, g)
           q == MemoizedFromLib(StoreAlone(t), T, input, g)
       IN Ran(t, r, Obs(Some(AsValue(r.heap, r.entry)), r.ran, Len_(r.memoized, T)),
                 q, Obs(Some(AsValue(q.heap, q.entry)), q.ran, Len_(q.memoized, T)))

\* num_interned::<T>() on thread t.
ThreadNumInterned(t, T) ==
    /\ ops < MaxOps
    /\ LET r == NumOf(StoreOf(t).interned, T)
           q == NumOf(StoreAlone(t).interned, T)
       IN Ran(t, [interned |-> r.table, memoized |-> StoreOf(t).memoized, heap |-> heap],
                 Obs(None, 0, r.len),
                 [interned |-> q.table, memoized |-> alone[t].memoized, heap |-> alone[t].heap],
                 Obs(None, 0, q.len))

\* num_memoized::<T>() on thread t.
ThreadNumMemoized(t, T) ==
    /\ ops < MaxOps
    /\ LET r == NumOf(StoreOf(t).memoized, T)
           q == NumOf(StoreAlone(t).memoized, T)
       IN Ran(t, [interned |-> StoreOf(t).interned, memoized |-> r.table, heap |-> heap],
                 Obs(None, 0, r.len),
                 [interned |-> alone[t].interned, memoized |-> q.table, heap |-> alone[t].heap],
                 Obs(None, 0, q.len))

NextThreads ==
    \/ \E t \in Threads, T \in Types : \E v \in Values(T) : ThreadIntern(t, T, v)
    \/ \E t \in Threads, T \in Types, scope \in Scopes, input \in Inputs, g \in Gens :
            ThreadMemoize(t, T, scope, input, g)
    \/ \E t \in Threads, T \in Types, input \in Inputs, g \in Gens :
            ThreadMemoizeLib(t, T, input, g)
    \/ \E t \in Threads, T \in Types : ThreadNumInterned(t, T)
    \/ \E t \in Threads, T \in Types : ThreadNumMemoized(t, T)

SpecThreads == InitThreads /\ [][NextThreads]_vars

\* What a table holds, addresses aside: per type and key, the hash code of
\* the record and the payload it points to.
Contents(table, hp) ==
    [T \in DOMAIN table |->
        [k \in DOMAIN table[T] |-> <<HashCode(table[T][k]), AsValue(hp, table[T][k])>>]]

\* C18: every thread has its own canonical store and memo table. A call of
\* one thread leaves the tables (hence the counters) of every other thread
\* as they were; every thread observes, and its tables hold, what they would
\* if the thread ran alone; and a handle is neither Send nor Sync, so none
\* reaches another thread.
C18_ThreadsIsolated ==
    /\ [](/\ \A t \in Threads :
                /\ alone[t].here = alone[t].solo
                /\ Contents(tls[t].interned, heap) = Contents(alone[t].interned, alone[t].heap)
                /\ Contents(tls[t].memoized, heap) = Contents(alone[t].memoized, alone[t].heap)
          /\ ~SendSync("Interned")
          /\ ~SendSync("Memoized"))
    /\ [][\A t \in Threads, u \in Threads :
            (alone'[t].calls # alone[t].calls /\ u # t) => tls'[u] = tls[u]]_vars

\* C18 witness: two threads interned the same value, and each has a record of
\* its own for it, at its own address, and counts one record.
C18_Witness ==
    \E T \in Types : \E v \in Values(T) :
        LET h == ContentHash(T, v) IN
        /\ \A t \in Threads :
            /\ T \in DOMAIN tls[t].interned
            /\ DOMAIN tls[t].interned[T] = {h}
            /\ AsValue(heap, tls[t].interned[T][h]) = v
            /\ alone[t].here.len = 1
        /\ AsPtr(tls["main"].interned[T][h]) # AsPtr(tls["worker"].interned[T][h])

\* C19: for one input and one output type, memoize calls with different
\* scopes have different keys: each of the two pairs ran its own generator
\* exactly once and has a memo entry of its own, and the handle of each reads
\* back what its generator computes from the input, whatever the scope is.
C19_ScopesSeparate ==
    \A T \in Types : \A p \in Pairs(T), q \in Pairs(T) :
        (p[2] = q[2] /\ p[1] # q[1]) =>
            /\ Memo(T, p).key # Memo(T, q).key
            /\ Memo(T, p).runs = 1
            /\ Memo(T, q).runs = 1
            /\ {Memo(T, p).key, Memo(T, q).key} \subseteq DOMAIN MEMOIZED[T]
            /\ AsValue(heap, Memo(T, p).first) = Memo(T, p).out
            /\ AsValue(heap, Memo(T, q).first) = Memo(T, q).out

\* ------------------------------------------------------------------ two types
\* Number of operations of one behaviour on two types.
MaxOpsTypes == 2

\* Two storable types whose values hash alike: a usize and a u64 are both
\* written to the hasher as one 64-bit word.
TwoTypes == {"usize", "u64"}

InitTypes ==
    /\ build \in {"modules", "lib"}
    /\ INTERNED = EmptyMap
    /\ MEMOIZED = EmptyMap
    /\ heap = <<>>
    /\ ops = 0
    /\ last = NoCall
    /\ log = [T \in TwoTypes |-> NoLog]
    /\ InitAside

\* Whether a behaviour on two types has operations left.
More == ops < MaxOpsTypes

NextTypes ==
    \/ \E T \in TwoTypes : \E v \in Values(T) : More /\ Intern(T, v)
    \/ \E T \in TwoTypes : \E v \in Values(T) :
            \E hopt \in {None} \cup {Some(h) : h \in OverrideHashes(T, v)} :
                More /\ InternStatic(T, v, hopt)
    \/ \E T \in TwoTypes, scope \in Scopes, input \in Inputs, g \in Gens :
            More /\ Memoize(T, scope, input, g)
    \/ \E T \in TwoTypes, input \in Inputs, g \in Gens : More /\ MemoizeLib(T, input, g)
    \/ \E T \in TwoTypes : More /\ NumInterned(T)
    \/ \E T \in TwoTypes : More /\ NumMemoized(T)

SpecTypes == InitTypes /\ [][NextTypes]_vars

\* Whether a step leaves the type's bucket of the table as it was (none, if it
\* had none).
SameBucket(table, table2, T) ==
    /\ (T \in DOMAIN table2) = (T \in DOMAIN table)
    /\ T \in DOMAIN table => table2[T] = table[T]

\* C20: both tables are partitioned by the type. A call for one type (intern,
\* memoize, or a counter) leaves the bucket, the memo sub-map and the two
\* counters of every other type as they were, also when the other type holds
\* the same content hash or the same (scope, input) pair; and a memoize call
\* whose key is not in the sub-map of its own output type runs its generator
\* and gets an entry there, whatever the other types' sub-maps hold.
C20_TypesPartitioned ==
    [][ops' # ops =>
        /\ \A B \in TwoTypes \ {last'.typ} :
            /\ SameBucket(INTERNED, INTERNED', B)
            /\ SameBucket(MEMOIZED, MEMOIZED', B)
            /\ Len_(INTERNED', B) = Len_(INTERNED, B)
            /\ Len_(MEMOIZED', B) = Len_(MEMOIZED, B)
        /\ (/\ last'.op = "memoize"
            /\ ~(/\ last'.typ \in DOMAIN MEMOIZED
                 /\ LastKey' \in DOMAIN MEMOIZED[last'.typ])) =>
                /\ last'.ran = 1
                /\ LastKey' \in DOMAIN MEMOIZED'[last'.typ]]_vars

\* C20 witness: one (scope, input) pair was memoized for both types, the
\* generator ran for each, and the two buckets hold records of their own
\* under the same content hash.
C20_Witness ==
    /\ \E p \in Pairs("usize") \cap Pairs("u64") :
        /\ Memo("usize", p).runs = 1
        /\ Memo("u64", p).runs = 1
    /\ last.op = "memoize"
    /\ last.ran = 1
    /\ \E h \in DOMAIN INTERNED["usize"] \cap DOMAIN INTERNED["u64"] :
        AsPtr(INTERNED["usize"][h]) # AsPtr(INTERNED["u64"][h])

\* Whether key is a key of the type's sub-map of the table.
KeyIn(table, T, key) == T \in DOMAIN table /\ key \in DOMAIN table[T]

\* C21: the memo table is a namespace of its own. An intern call leaves the
\* memo table as it was and returns the entry of the canonical store; and
\* whether a memoize call misses is decided by the memo sub-map alone: a key
\* absent from it is a miss (the generator runs and the entry is written)
\* also when the same number is a content hash of the type's bucket of the
\* canonical store, and a key present in it is a hit.
C21_MemoNamespace ==
    [][ops' # ops =>
        /\ last'.op \in {"intern", "intern_static"} =>
            /\ MEMOIZED' = MEMOIZED
            /\ last'.ret = INTERNED'[last'.typ][LastHash']
        /\ last'.op = "memoize" =>
            /\ (last'.ran = 1) <=> ~KeyIn(MEMOIZED, last'.typ, LastKey')
            /\ KeyIn(MEMOIZED', last'.typ, LastKey')]_vars

\* C21 witness: a memoize call missed although its key was a content hash of
\* a record interned before, and that record is not the one the memo entry
\* holds.
C21_Witness ==
    /\ last.op = "memoize"
    /\ last.ran = 1
    /\ HashSeen(last.typ, LastKey)
    /\ AsPtr(INTERNED[last.typ][LastKey]) < AsPtr(MEMOIZED[last.typ][LastKey])
    /\ AsValue(heap, last.ret) = LastOut
    /\ LastOut # AsValue(heap, INTERNED[last.typ][LastKey])

\* Whether the i-th record the caller holds is a handle: an entry of the
\* canonical store.
IsHandle(i) == InStore(TypeOfKind(held[i].static.kind), held[i].static)

\* C22: round trip, for the kinds Value, Slice and Str: the handle interning
\* v returned reads back v through the accessor of its kind, in the state
\* after the call and in every later one, and all handles of one record read
\* the same.
C22_RoundTrip ==
    /\ \A i \in 1..Len(held) :
        IsHandle(i) =>
            StaticAs(heap, held[i].static, held[i].static.kind) = Ok(held[i].made)
    /\ \A i \in 1..Len(held), j \in 1..Len(held) :
        AsPtr(held[i].static) = AsPtr(held[j].static) => held[i].made = held[j].made

\* C22 witness: the caller holds a handle of each of the three kinds, each
\* made by a call that found its hash absent, and each reads back what was
\* interned.
C22_Witness ==
    \A kind \in Shapes :
        \E i \in 1..Len(held) :
            /\ held[i].static.kind = kind
            /\ IsHandle(i)
            /\ \A j \in 1..Len(held) : j # i => held[j].static # held[i].static
            /\ StaticAs(heap, held[i].static, kind) = Ok(held[i].made)

\* C23: a canonical record is created once per (type, hash) and never changes:
\* over every step each entry of each bucket keeps its payload address, its
\* hash and its payload, an entry added by the step points at a payload
\* allocated by the step, no two entries share a payload, and a handle the
\* caller holds stays valid and reads the same content.
C23_RecordImmutable ==
    /\ [](\A T \in DOMAIN INTERNED : \A h \in DOMAIN INTERNED[T] :
            /\ AsPtr(INTERNED[T][h]) \in 1..Len(heap)
            /\ AsPtr(INTERNED[T][h]) # BufAddr
            /\ \A U \in DOMAIN INTERNED : \A k \in DOMAIN INTERNED[U] :
                AsPtr(INTERNED[U][k]) = AsPtr(INTERNED[T][h]) => U = T /\ k = h)
    /\ [][/\ \A T \in DOMAIN INTERNED : \A h \in DOMAIN INTERNED[T] :
                /\ KeyIn(INTERNED', T, h)
                /\ AsPtr(INTERNED'[T][h]) = AsPtr(INTERNED[T][h])
                /\ HashCode(INTERNED'[T][h]) = HashCode(INTERNED[T][h])
                /\ heap'[AsPtr(INTERNED[T][h])] = heap[AsPtr(INTERNED[T][h])]
          /\ \A T \in DOMAIN INTERNED' : \A h \in DOMAIN INTERNED'[T] :
                ~KeyIn(INTERNED, T, h) => AsPtr(INTERNED'[T][h]) > Len(heap)
          /\ \A i \in 1..Len(held) :
                IsHandle(i) =>
                    /\ held'[i] = held[i]
                    /\ StaticAs(heap', held[i].static, held[i].static.kind)
                        = StaticAs(heap, held[i].static, held[i].static.kind)]_vars

\* C23 witness: the caller interned the same slice twice and holds the one
\* record both calls returned, and has since written to its own buffer, which
\* now differs from the record's payload.
C23_Witness ==
    \E i \in 1..Len(held), j \in 1..Len(held) :
        /\ i < j
        /\ held[i].static = held[j].static
        /\ held[i].static.kind = "Slice"
        /\ IsHandle(i)
        /\ heap[BufAddr] # heap[AsPtr(held[i].static)]
        /\ StaticAs(heap, held[i].static, "Slice") = Ok(held[i].made)

\* ------------------------------------------------------------------- InStr
\* InStr(Interned<&'static str>): the wrapper is its handle. A text is kept by
\* its bytes, borrowed or owned.

\* InStr::from(&str).
InStrFromStr(st, value) == InternedFromStr(st, "&str", value)

\* The bytes a String holds, borrowed: String::as_str.
StringAsStr(string) == string

\* Faulty variant of InStrFromString: the owned string is leaked and wrapped,
\* without a lookup.
InStrFromString_Leak(st, value) ==
    LET made == StaticStrWithHash(st.heap, StringAsStr(value), None)
    IN [interned |-> st.interned,
        memoized |-> st.memoized,
        heap |-> made.heap,
        entry |-> made.static]

\* InStr::from(String): interns value.as_str().
InStrFromString(st, value) == InStrFromStr(st, StringAsStr(value))

\* InStr::as_str, and the conversions to &str and to String: the record read
\* as a string.
InStrAsStr(hp, instr) == StaticAs(hp, instr, "Str").out

\* An InStr the caller holds: the handle, the text or record content it was
\* built from, and the conversion that built it.
HeldInStr(static, made, from) == [static |-> static, made |-> made, from |-> from]

\* let s: InStr = text.into(), from a borrowed (&str) or an owned (String)
\* text.
FromText(text, from) ==
    /\ ops < MaxOps
    /\ LET r == IF from = "&str" THEN InStrFromStr(Store, text)
                ELSE InStrFromString(Store, text) IN
        /\ INTERNED' = r.interned
        /\ heap' = r.heap
        /\ held' = Append(held, HeldInStr(r.entry, text, from))
    /\ ops' = ops + 1
    /\ UNCHANGED <<build, MEMOIZED, last, log, view, tls, alone, stack, done>>

\* InStr::from(Interned::<&str>::from(string.to_static_with_hash(hopt))): the
\* caller builds the record, under a hash of its choice, and wraps the handle.
FromInterned(string, hopt) ==
    /\ ops < MaxOps
    /\ LET made == StaticStrWithHash(heap, string, hopt)
           r == InternedFromStatic([interned |-> INTERNED, memoized |-> MEMOIZED,
                                    heap |-> made.heap], "&str", made.static) IN
        /\ INTERNED' = r.interned
        /\ heap' = r.heap
        /\ held' = Append(held, HeldInStr(r.entry, string, "Interned"))
    /\ ops' = ops + 1
    /\ UNCHANGED <<build, MEMOIZED, last, log, view, tls, alone, stack, done>>

\* String::from(instr), <&str>::from(instr): the i-th wrapper converted back.
IntoString(i) ==
    /\ ops < MaxOps
    /\ view' = [static |-> held[i].static, shape |-> "Str", panic |-> FALSE,
                out |-> InStrAsStr(heap, held[i].static), at |-> ops + 1]
    /\ ops' = ops + 1
    /\ UNCHANGED <<build, INTERNED, MEMOIZED, heap, last, log, held, tls, alone, stack, done>>

NextStr ==
    \/ \E text \in Strs, from \in {"&str", "String"} : FromText(text, from)
    \/ \E string \in Strs :
            \E hopt \in {None} \cup {Some(StrHash(other)) : other \in Strs \ {string}} :
                FromInterned(string, hopt)
    \/ \E i \in 1..Len(held) : IntoString(i)

SpecStr == Init /\ [][NextStr]_vars

\* The wrappers the caller built from a text.
OfText == {i \in 1..Len(held) : held[i].from \in {"&str", "String"}}

C25_HitAllocatesNothing ==
    [][ops' # ops =>
        /\ last'.op = "intern" =>
            IF HashSeen(last'.typ, LastHash')
            THEN heap' = heap /\ INTERNED' = INTERNED
            ELSE /\ Len(heap') = Len(heap) + 1
                 /\ SubSeq(heap', 1, Len(heap)) = heap
                 /\ AsPtr(last'.ret) = Len(heap')
        /\ last'.op = "intern_static" =>
            LET made == ToStaticWithHash(heap, last'.typ, last'.arg, last'.hopt) IN
                /\ heap' = made.heap
                /\ HashSeen(last'.typ, LastHash') => INTERNED' = INTERNED
                /\ ~HashSeen(last'.typ, LastHash') => last'.ret = made.static
        /\ (last'.op = "memoize" /\ build = "modules" /\ heap' # heap) =>
            /\ last'.ran = 1
            /\ ~HashSeen(last'.typ, LastHash')]_vars

\* C25 witness: Interned::from(value) found the hash in a bucket that held
\* it, for a record of other content stored under a caller's hash, and the
\* heap still holds the one payload.
C25_Witness ==
    /\ last.op = "intern"
    /\ last.preEntry # NoStatic
    /\ last.ret = last.preEntry
    /\ AsValue(heap, last.ret) # last.arg
    /\ Len(heap) = 1
    /\ Len_(INTERNED, last.typ) = 1

\* C26: a memoize call whose key is in the memo table of its output type does
\* not run the generator and changes nothing: the memo table, the canonical
\* store, the heap, num_memoized and num_interned of every type are after the
\* call what they were before it.
C26_MemoHitChangesNothing ==
    [][(/\ ops' # ops
        /\ last'.op = "memoize"
        /\ KeyIn(MEMOIZED, last'.typ, LastKey')) =>
            /\ last'.ran = 0
            /\ MEMOIZED' = MEMOIZED
            /\ INTERNED' = INTERNED
            /\ heap' = heap
            /\ \A T \in TwoTypes :
                /\ Len_(MEMOIZED', T) = Len_(MEMOIZED, T)
                /\ Len_(INTERNED', T) = Len_(INTERNED, T)]_vars

\* C26 witness: a memoize call found its key, and the tables hold the one memo
\* entry and the one record the first call made.
C26_Witness ==
    /\ last.op = "memoize"
    /\ last.seenKey
    /\ last.ran = 0
    /\ last.preMemoized = 1 /\ Len_(MEMOIZED, last.typ) = 1
    /\ last.preInterned = 1 /\ Len_(INTERNED, last.typ) = 1
    /\ last.ret = INTERNED[last.typ][LastHash]

\* ------------------------------------------------------------ step by step
\* Memoized::from run step by step: the borrow of the memo table and the
\* lookup, the generator, the insert of the entry, and the conversion of the
\* record into a handle. The generator is the caller's code: it may compute
\* its result only, intern another value first, panic, or call Memoized::from
\* itself.

\* Top-level Memoized::from calls of a behaviour run step by step.
MaxCalls == 2

\* Memoized::from calls in progress at once.
MaxDepth == 2

\* What a generator does.
Does == {"value", "intern", "panic", "memoize"}

\* A Memoized::from call in progress: its output type, key and generator, its
\* position (pc), the record it got so far, and num_memoized of its type
\* before the call.
Frame(T, scope, input, does, key, pc, value, pre) ==
    [typ |-> T, scope |-> scope, input |-> input, does |-> does, key |-> key,
     pc |-> pc, value |-> value, pre |-> pre]

\* The innermost call in progress.
Top == stack[Len(stack)]

\* Faulty variant of Borrowed: the borrow ends with the lookup.
Borrowed_Never(stk) == FALSE

\* Whether the RefCell of MEMOIZED is mutably borrowed: the RefMut lives for
\* the whole match inside MEMOIZED.with, so a call that is running its
\* generator or inserting the entry holds it.
Borrowed(stk) == \E i \in 1..Len(stk) : stk[i].pc \in {"generate", "insert"}

\* Faulty variant of Unwind: the entry is bound (to an empty record) before the
\* generator runs, and stays when the generator panics.
Unwind_Insert(table, stk) ==
    [T \in DOMAIN table |->
        [k \in {stk[i].key : i \in {j \in 1..Len(stk) : stk[j].typ = T}} |-> NoStatic]
            @@ table[T]]

\* The memo table after a panic unwound the calls in progress: each call's
\* VacantEntry is dropped without an insert, the table is as it was.
Unwind(table, stk) == table

\* How a call ended: with a handle, or with a panic (of the generator, or of
\* borrow_mut), for which key, under which outermost call, and the keys whose
\* calls a panic has unwound and no later call has written.
Done(outcome, T, key, ret, stk, failed) ==
    [outcome |-> outcome, typ |-> T, key |-> key, ret |-> ret,
     depth |-> Len(stk),
     outer |-> IF stk = <<>> THEN <<T, key>> ELSE <<stk[1].typ, stk[1].key>>,
     failed |-> failed \cup {<<stk[i].typ, stk[i].key>> : i \in 1..Len(stk)}]

\* Memoized::from, called by the program or from inside a generator, up to the
\* match on the entry: borrow_mut panics when the table is borrowed, and the
\* panic unwinds every call in progress; otherwise the type's sub-map is
\* created if missing and the key looked up.
MemoizeBegin(T, scope, input, does) ==
    /\ \/ stack = <<>> /\ ops < MaxCalls
       \/ stack # <<>> /\ Len(stack) < MaxDepth /\ Top.pc = "generate" /\ Top.does = "memoize"
    /\ LET key == KeyOf(T, scope, input)
           table == WithBucket(MEMOIZED, T)
           occupied == key \in DOMAIN table[T]
       IN IF Borrowed(stack)
          THEN /\ stack' = <<>>
               /\ MEMOIZED' = Unwind(MEMOIZED, stack)
               /\ done' = Done("BorrowMutError", T, key, NoStatic, stack, done.failed)
          ELSE /\ stack' = Append(stack,
                        Frame(T, scope, input, does, key,
                              IF occupied THEN "into" ELSE "generate",
                              IF occupied THEN table[T][key] ELSE NoStatic,
                              Len_(MEMOIZED, T)))
               /\ MEMOIZED' = table
               /\ done' = done
    /\ ops' = IF stack = <<>> THEN ops + 1 ELSE ops
    /\ UNCHANGED <<build, INTERNED, heap, last, log, held, view, tls, alone>>

\* generator(input) returns. In memoized.rs it returns a handle, which it got
\* from Interned::from; in lib.rs it returns a value, which to_static() boxes
\* in a new record. A generator that interns first interns the value 0.
GeneratorReturns ==
    /\ stack # <<>> /\ Top.pc = "generate" /\ Top.does \in {"value", "intern"}
    /\ LET T == Top.typ
           st0 == IF Top.does = "intern" THEN InternedFromT(Store, T, 0) ELSE Store
           out == GenOut("len", Top.input)
           gen == InternedFromT(st0, T, out)
           made == ToStatic(st0.heap, T, out)
       IN IF build = "modules"
          THEN /\ INTERNED' = gen.interned
               /\ heap' = gen.heap
               /\ stack' = [stack EXCEPT ![Len(stack)].pc = "insert",
                                         ![Len(stack)].value = gen.entry]
          ELSE /\ INTERNED' = st0.interned
               /\ heap' = made.heap
               /\ stack' = [stack EXCEPT ![Len(stack)].pc = "insert",
                                         ![Len(stack)].value = made.static]
    /\ UNCHANGED <<build, MEMOIZED, ops, last, log, held, view, tls, alone, done>>

\* generator(input) panics: the panic unwinds the call.
GeneratorPanics ==
    /\ stack # <<>> /\ Top.pc = "generate" /\ Top.does = "panic"
    /\ stack' = <<>>
    /\ MEMOIZED' = Unwind(MEMOIZED, stack)
    /\ done' = Done("panic", Top.typ, Top.key, NoStatic, stack, done.failed)
    /\ UNCHANGED <<build, INTERNED, heap, ops, last, log, held, view, tls, alone>>

\* *entry.insert(..): the memo entry is written, the borrow ends.
EntryInsert ==
    /\ stack # <<>> /\ Top.pc = "insert"
    /\ MEMOIZED' = [MEMOIZED EXCEPT ![Top.typ] = (Top.key :> Top.value) @@ @]
    /\ stack' = [stack EXCEPT ![Len(stack)].pc = "into"]
    /\ done' = [done EXCEPT !.failed = @ \ {<<Top.typ, Top.key>>}]
    /\ UNCHANGED <<build, INTERNED, heap, ops, last, log, held, view, tls, alone>>

\* value_static.into(): the record goes through From<Static>, and the handle
\* is returned.
StaticInto ==
    /\ stack # <<>> /\ Top.pc = "into"
    /\ LET r == InternedFromStatic(Store, Top.typ, Top.value) IN
        /\ INTERNED' = r.interned
        /\ done' = Done("handle", Top.typ, Top.key, r.entry, <<>>, done.failed)
    /\ stack' = SubSeq(stack, 1, Len(stack) - 1)
    /\ UNCHANGED <<build, MEMOIZED, heap, ops, last, log, held, view, tls, alone>>

NextSteps ==
    \/ \E T \in Types, scope \in Scopes, input \in Inputs, does \in Does :
            stack = <<>> /\ MemoizeBegin(T, scope, input, does)
    \/ \E T \in TwoTypes, scope \in Scopes, input \in Inputs, does \in Does :
            stack # <<>> /\ MemoizeBegin(T, scope, input, does)
    \/ GeneratorReturns
    \/ GeneratorPanics
    \/ EntryInsert
    \/ StaticInto

SpecSteps == Init /\ [][NextSteps]_vars

\* C27: on a memoize miss the effects come in this order: the generator runs,
\* its result is in the canonical store, the memo entry is written, the handle
\* is returned; and at no step does the memo table hold a record that is not
\* an entry of the canonical store of its type.
C27_MissOrder ==
    /\ \A i \in 1..Len(stack) :
        /\ stack[i].pc = "insert" => InStore(stack[i].typ, stack[i].value)
        /\ stack[i].pc = "into" => KeyIn(MEMOIZED, stack[i].typ, stack[i].key)
    /\ done.outcome = "handle" =>
        /\ KeyIn(MEMOIZED, done.typ, done.key)
        /\ InStore(done.typ, done.ret)
    /\ \A T \in DOMAIN MEMOIZED : \A k \in DOMAIN MEMOIZED[T] :
        InStore(T, MEMOIZED[T][k])

\* Whether the step is a Memoized::from call made from inside a generator.
NestedCall == stack # <<>> /\ Top.pc = "generate" /\ Top.does = "memoize" /\ stack' # stack

\* C28: while a generator runs the memo table is mutably borrowed, so a
\* Memoized::from call made from inside a generator, for any key and any
\* output type, ends with the panic of borrow_mut and returns no handle; the
\* panic unwinds the outer call, whose key stays absent while the table is as
\* it was. A generator that computes its result or interns values returns,
\* and its call goes on to write the entry.
C28_NestedMemoizePanics ==
    /\ [](\A i \in 1..Len(stack) : stack[i].pc = "generate" => Borrowed(stack))
    /\ [][NestedCall =>
            /\ done'.outcome = "BorrowMutError"
            /\ done'.ret = NoStatic
            /\ done'.outer = <<stack[1].typ, stack[1].key>>
            /\ stack' = <<>>
            /\ MEMOIZED' = MEMOIZED
            /\ ~KeyIn(MEMOIZED', stack[1].typ, stack[1].key)]_vars
    /\ [][(stack # <<>> /\ Top.pc = "generate" /\ Top.does \in {"value", "intern"}
           /\ stack' # stack) =>
            /\ Len(stack') = Len(stack)
            /\ stack'[Len(stack')].pc = "insert"
            /\ done' = done]_vars

\* C28 witness: a call made from inside the generator of a call for another
\* output type ended with the panic of borrow_mut; no call is in progress and
\* the outer key is absent from the memo table, which holds an entry written
\* by an earlier call.
C28_Witness ==
    /\ done.outcome = "BorrowMutError"
    /\ done.depth = 1
    /\ done.typ # done.outer[1]
    /\ stack = <<>>
    /\ ~KeyIn(MEMOIZED, done.outer[1], done.outer[2])
    /\ Len_(MEMOIZED, done.outer[1]) = 1

\* C29: when the generator panics during a memoize miss, no entry is written
\* for the key and num_memoized of the type is what it was before the call;
\* the borrow is released, and the next call with a key that is absent, that
\* key included, runs its generator.
C29_GeneratorPanic ==
    /\ [][(stack # <<>> /\ Top.pc = "generate" /\ Top.does = "panic" /\ stack' # stack) =>
            /\ done'.outcome = "panic"
            /\ done'.typ = Top.typ /\ done'.key = Top.key
            /\ stack' = <<>>
            /\ ~Borrowed(stack')
            /\ ~KeyIn(MEMOIZED', done'.typ, done'.key)
            /\ Len_(MEMOIZED', done'.typ) = Top.pre
            /\ \A T \in TwoTypes : Len_(MEMOIZED', T) = Len_(MEMOIZED, T)
            /\ <<done'.typ, done'.key>> \in done'.failed]_vars
    /\ [][(stack = <<>> /\ stack' # <<>>) =>
            /\ done'.outcome = done.outcome
            /\ stack'[1].pc = IF KeyIn(MEMOIZED, stack'[1].typ, stack'[1].key)
                              THEN "into" ELSE "generate"]_vars
    /\ [](\A k \in done.failed : ~KeyIn(MEMOIZED, k[1], k[2]))

\* C29 witness: a generator panicked for a key, and a later call with the key
\* ran its generator and is about to write the entry.
C29_Witness ==
    /\ stack # <<>>
    /\ Top.pc = "insert"
    /\ <<Top.typ, Top.key>> \in done.failed
    /\ done.outcome = "panic"
    /\ done.key = Top.key /\ done.typ = Top.typ
    /\ ~KeyIn(MEMOIZED, Top.typ, Top.key)

\* ------------------------------------------------------------ handle reads
\* a.cmp(&b) / a.partial_cmp(&b) on two handles of one type the caller holds:
\* any of the results Static::_cmp can come to; `elem` is the element type
\* the payloads were read with.
Compare(i, j) ==
    /\ ops < MaxOps
    /\ IsHandle(i) /\ IsHandle(j)
    /\ held[i].static.kind = held[j].static.kind
    /\ \E o \in InternedCmp(held[i].static, held[j].static) :
        view' = [static |-> held[i].static, shape |-> "cmp", panic |-> o = "Crash",
                 out |-> o, at |-> ops + 1, other |-> held[j].static,
                 elem |-> IF held[i].static.kind = "Slice"
                          THEN TypeOfKind(held[i].static.kind)
                          ELSE SliceValueType(TypeOfKind(held[i].static.kind))]
    /\ ops' = ops + 1
    /\ UNCHANGED <<build, INTERNED, MEMOIZED, heap, last, log, held, tls, alone, stack, done>>

NextCmp ==
    \/ \E i \in 1..BufLen, e \in Elems : WriteBuffer(i, e)
    \/ InternSlice
    \/ \E T \in Types : \E v \in Values(T) : InternValue(T, v)
    \/ \E string \in Strs : InternStr(string)
    \/ \E i \in 1..Len(held), shape \in Shapes : Access(i, shape)
    \/ \E i \in 1..Len(held), j \in 1..Len(held) : Compare(i, j)

SpecCmp == InitRaw /\ [][NextCmp]_vars

\* The order of the contents two records of one kind were stored with.
CmpStored(a, b) ==
    IF a.kind = "Value" THEN CmpInt(heap[a.ptr], heap[b.ptr])
    ELSE CmpSeq(heap[a.ptr], heap[b.ptr])

\* C30: every payload a handle operation reads is read with the element type
\* and the length it was stored with: an accessor that does not panic returns
\* the stored content, and a comparison reads both payloads with the element
\* type of the handles' type (for slice handles the element type, not the
\* slice type) and comes to the order of the stored contents.
C30_ReadsAsStored ==
    /\ (view.shape \in Shapes /\ ~view.panic) => view.out = heap[view.static.ptr]
    /\ view.shape = "cmp" =>
        /\ view.elem = SliceValueType(TypeOfKind(view.static.kind))
        /\ view.out = CmpStored(view.static, view.other)

\* C31: for two handles of one type, ordering agrees with equality, also after
\* a hash collision or a caller-supplied hash: cmp(a, b) is Equal exactly when
\* a == b.
C31_OrderAgreesWithEq ==
    \A T \in DOMAIN INTERNED : \A a \in Handles(T), b \in Handles(T) :
        (InternedCmp(a, b) = {"Equal"}) <=> InternedEq(a, b)

\* Static::_hash::<T, H>: (type_id, record).hash(state), where a record's own
\* Hash writes its hash code; what a DefaultHasher comes to.
StaticHash(T, static) ==
    Finish(Write(Write(HasherDefault, TypeIdBytes(T)), <<HashCode(static)>>))

\* impl Hash for Interned<T>: delegates to Static::_hash::<T, H>.
InternedHash(T, a) == StaticHash(T, a)

\* C32: the hash of a handle depends on its type and its record's content hash
\* only, so two handles of one type that compare equal hash the same, and so
\* does a copy of a handle.
C32_EqualThenSameHash ==
    \A T \in DOMAIN INTERNED : \A a \in Handles(T), b \in Handles(T) :
        /\ HashCode(a) = HashCode(b) => InternedHash(T, a) = InternedHash(T, b)
        /\ InternedEq(a, b) => InternedHash(T, a) = InternedHash(T, b)

\* The types with a bucket in either table.
TypesStored == DOMAIN INTERNED \cup DOMAIN MEMOIZED

\* C33: when records enter the store through the typed entry points only
\* (Interned::from(value) and Memoized::from), every record of a type's bucket
\* and of its memo sub-map has the storage kind the type declares, so the
\* accessor of that kind does not panic on any handle of the type.
C33_KindAsDeclared ==
    /\ \A T \in DOMAIN INTERNED : \A h \in DOMAIN INTERNED[T] :
        /\ INTERNED[T][h].kind = Kind(T)
        /\ ~StaticAs(heap, INTERNED[T][h], Kind(T)).panic
    /\ \A T \in DOMAIN MEMOIZED : \A k \in DOMAIN MEMOIZED[T] :
        /\ MEMOIZED[T][k].kind = Kind(T)
        /\ ~StaticAs(heap, MEMOIZED[T][k], Kind(T)).panic
    /\ \A T \in TypesStored :
        (view.shape = Kind(T) /\ InStore(T, view.static)) => ~view.panic

\* C33 witness: the text accessor was called on a handle of &str and returned
\* the text, next to a bucket of a slice type that holds a record.
C33_Witness ==
    /\ view.shape = "Str"
    /\ InStore("&str", view.static)
    /\ ~view.panic
    /\ view.out = heap[view.static.ptr]
    /\ Len_(INTERNED, "&[u8]") = 1

\* ------------------------------------------------------------ two contexts
\* Two execution contexts (threads, each with its own tables) make the same
\* calls in the same order; their payloads come from one allocator, so the
\* addresses they get differ.

\* Calls of a behaviour of the two contexts.
MaxOpsTwin == 2

\* The tables of context t with the payloads allocated so far.
StoreWith(t, hp) ==
    [interned |-> tls[LocalKey(t)].interned, memoized |-> tls[LocalKey(t)].memoized, heap |-> hp]

\* impl PartialEq for Interned<T> on the payloads hp.
InternedEqOn(hp, a, b) ==
    IF build = "modules" THEN PartialEq(a, b) ELSE PartialEqLib(hp, a, b)

\* What a context observes of a call that left the store r and returned
\* r.entry: the value read back, how often the generator ran, the two
\* counters of the type, and which of the handles it got before are equal to
\* the new one.
Observed(r, T, ran, handles) ==
    [read |-> AsValue(r.heap, r.entry),
     ran |-> ran,
     interned |-> Len_(r.interned, T),
     memoized |-> Len_(r.memoized, T),
     eqs |-> {i \in 1..Len(handles) : InternedEqOn(r.heap, handles[i], r.entry)}]

\* No call yet: no handle got, nothing observed.
InitTwin ==
    /\ build \in {"modules", "lib"}
    /\ INTERNED = EmptyMap
    /\ MEMOIZED = EmptyMap
    /\ heap = <<>>
    /\ ops = 0
    /\ last = NoCall
    /\ log = [T \in Types |-> NoLog]
    /\ held = <<>>
    /\ view = NoView
    /\ stack = <<>>
    /\ done = NoneDone
    /\ tls = [t \in Threads |-> NoTables]
    /\ alone = [t \in Threads |-> [handles |-> <<>>, obs |-> <<>>]]

\* Both contexts made the call: a and b are the stores it left in the first and
\* in the second, rana and ranb the generator runs.
Twin(a, b, T, rana, ranb) ==
    /\ tls' = [tls EXCEPT ![LocalKey("main")] = [interned |-> a.interned, memoized |-> a.memoized],
                          ![LocalKey("worker")] = [interned |-> b.interned, memoized |-> b.memoized]]
    /\ heap' = b.heap
    /\ alone' = [alone EXCEPT
                    !["main"] = [handles |-> Append(@.handles, a.entry),
                                 obs |-> Append(@.obs, Observed([a EXCEPT !.heap = b.heap], T, rana,
                                                                @.handles))],
                    !["worker"] = [handles |-> Append(@.handles, b.entry),
                                   obs |-> Append(@.obs, Observed(b, T, ranb, @.handles))]]
    /\ ops' = ops + 1
    /\ UNCHANGED <<build, INTERNED, MEMOIZED, last, log, held, view, stack, done>>

\* Interned::from(value) in both contexts.
TwinIntern(T, v) ==
    /\ ops < MaxOpsTwin
    /\ LET a == InternedFromT(StoreWith("main", heap), T, v)
           b == InternedFromT(StoreWith("worker", a.heap), T, v)
       IN Twin(a, b, T, 0, 0)

\* Interned::<T>::from(value.to_static_with_hash(hopt)) in both contexts.
TwinInternStatic(T, v, hopt) ==
    /\ ops < MaxOpsTwin
    /\ LET ma == ToStaticWithHash(heap, T, v, hopt)
           a == InternedFromStatic(StoreWith("main", ma.heap), T, ma.static)
           mb == ToStaticWithHash(a.heap, T, v, hopt)
           b == InternedFromStatic(StoreWith("worker", mb.heap), T, mb.static)
       IN Twin(a, b, T, 0, 0)

\* Memoized::from(scope, input, generator) of memoized.rs in both contexts.
TwinMemoize(T, scope, input, g) ==
    /\ build = "modules"
    /\ ops < MaxOpsTwin
    /\ LET a == MemoizedFrom(StoreWith("main", heap), T, scope, input, g)
           b == MemoizedFrom(StoreWith("worker", a.heap), T, scope, input, g)
       IN Twin(a, b, T, a.ran, b.ran)

\* Memoized::from(input, generator) of lib.rs in both contexts.
TwinMemoizeLib(T, input, g) ==
    /\ build = "lib"
    /\ ops < MaxOpsTwin
    /\ LET a == MemoizedFromLib(StoreWith("main", heap), T, input, g)
           b == MemoizedFromLib(StoreWith("worker", a.heap), T, input, g)
       IN Twin(a, b, T, a.ran, b.ran)

NextTwin ==
    \/ \E T \in Types : \E v \in Values(T) : TwinIntern(T, v)
    \/ \E T \in Types : \E v \in Values(T) :
            \E hopt \in {None} \cup {Some(h) : h \in OverrideHashes(T, v)} :
                TwinInternStatic(T, v, hopt)
    \/ \E T \in Types, scope \in Scopes, input \in Inputs, g \in Gens :
            TwinMemoize(T, scope, input, g)
    \/ \E T \in Types, input \in Inputs, g \in Gens : TwinMemoizeLib(T, input, g)

SpecTwin == InitTwin /\ [][NextTwin]_vars

C35_KeyIsStoredHash ==
    /\ \A T \in DOMAIN INTERNED : \A k \in DOMAIN INTERNED[T] :
            INTERNED[T][k].hash = k
    /\ last.op = "intern" =>
            /\ KeyIn(INTERNED, last.typ, ContentHash(last.typ, last.arg))
            /\ HashCode(last.ret) = ContentHash(last.typ, last.arg)
    /\ last.op = "intern_static" =>
            /\ KeyIn(INTERNED, last.typ, HashGiven(last.typ, last.arg, last.hopt))
            /\ HashCode(last.ret) = HashGiven(last.typ, last.arg, last.hopt)

\* C35 witness: a bucket holds two entries, one stored by Interned::from(value)
\* under the computed hash and one stored by From<Static> under a hash the
\* caller chose.
C35_Witness ==
    /\ last.op = "intern_static"
    /\ last.hopt # None
    /\ last.preEntry = NoStatic
    /\ last.preInterned = 1
    /\ Len_(INTERNED, last.typ) = 2
    /\ \E v \in DOMAIN log[last.typ].intern :
            /\ KeyIn(INTERNED, last.typ, ContentHash(last.typ, v))
            /\ INTERNED[last.typ][ContentHash(last.typ, v)] = log[last.typ].intern[v].first

====
